---- MODULE Spec2Model ----
(***************************************************************************)
(* jsdactyl: the request/response mapping and pagination layer.            *)
(*                                                                         *)
(* Every public method is `new Promise(async (resolve, reject) => {...})`: *)
(* the executor runs synchronously up to its first `await`, so the local   *)
(* assignment, the construction of the request body and the transport call *)
(* all happen in the invoking step.  The code after the `await` runs when  *)
(* the transport settles (action Respond).  The transport itself           *)
(* (api.call) is the environment.                                          *)
(*                                                                         *)
(* Field values are abstract tokens 1..MaxVal; an entity is a record of    *)
(* its local fields; objects with identity (entities, Pagination cursors)  *)
(* live in the sequences heap and cursors and are referred to by index.    *)
(***************************************************************************)
EXTENDS Integers, Sequences, FiniteSets, TLC

\* ------------------------------------------------------------- bounds
MaxVal == 2        \* argument and response tokens are 1..MaxVal
MaxOps == 2        \* invocations per behaviour of the update specification
MaxListOps == 1    \* invocations per behaviour of the fetch specification
MaxPage == 3       \* page numbers a caller passes are 0..MaxPage
MaxData == 3       \* elements of a list response
MaxReads == 1      \* further invocations of methods that issue no call

Vals == 1..MaxVal

VARIABLES
    heap,      \* entity instances, in construction order
    cursors,   \* Pagination objects, in construction order
    ops,       \* invocations of public methods: the returned promise and its fate
    calls      \* transport calls (api.call), in the order they were issued

vars == <<heap, cursors, ops, calls>>

\* ------------------------------------------------- transport responses
\* The raw pagination block of a list response, or its absence.
NoPagination == [present |-> FALSE]

RawPagination(page) ==
    [present |-> TRUE, total |-> 5, count |-> 2, per_page |-> 2,
     current_page |-> page, total_pages |-> 3]

\* Attribute bags as the panel returns them (remote field names).
RawUser(id, r) ==
    [id |-> id, external_id |-> r, username |-> r, email |-> r,
     first_name |-> r, last_name |-> r, language |-> r, root_admin |-> r]

RawLocation(id, r) ==
    [id |-> id, short |-> r, long |-> r]

RawNode(id, r) ==
    [id |-> id, name |-> r, description |-> r, location_id |-> r,
     public |-> r, fqdn |-> r, scheme |-> r, behind_proxy |-> r,
     maintenance_mode |-> r, upload_size |-> r, memory |-> r,
     memory_overallocate |-> r, disk |-> r, disk_overallocate |-> r,
     daemon_listen |-> r, daemon_sftp |-> r, daemon_base |-> r]

\* (the servers the panel describes with token 2 are suspended ones)
RawServer(id, r) ==
    [id |-> id, external_id |-> r, name |-> r, description |-> r,
     suspended |-> (r = 2), user |-> r, allocation |-> r, egg |-> r, pack |-> r,
     limits |-> [memory |-> r, swap |-> r, disk |-> r, io |-> r, cpu |-> r],
     feature_limits |-> [databases |-> r, allocations |-> r],
     container |-> [startup_command |-> r, image |-> r]]

RawNest(id, r) == [id |-> id, name |-> r, description |-> r]

RawEgg(id, r) == [id |-> id, nest |-> r, name |-> r, docker_image |-> r]

RawNodeAllocation(id, r) == [id |-> id, ip |-> r, port |-> r, assigned |-> r]

RawServerDatabase(id, r) == [id |-> id, server |-> r, database |-> r, host |-> r]

RawClientServer(id, r) ==
    [identifier |-> id, name |-> r,
     limits |-> [memory |-> r, swap |-> r, disk |-> r, io |-> r, cpu |-> r],
     feature_limits |-> [databases |-> r, allocations |-> r]]

\* /client/servers/{identifier}/resources
RawResources(r) ==
    [current_state |-> r,
     resources |-> [cpu_absolute |-> r, memory_bytes |-> r, disk_bytes |-> r]]

\* ---------------------------------------------------------- hydration
\* models/Pagination
Pagination(raw) ==
    [currentPage |-> raw.current_page, totalPages |-> raw.total_pages,
     totalItems |-> raw.total, itemsPerPage |-> raw.per_page]

\* models/User
UserModel(data) ==
    [cls |-> "User", id |-> data.id, externalId |-> data.external_id,
     username |-> data.username, email |-> data.email,
     firstName |-> data.first_name, lastName |-> data.last_name,
     language |-> data.language, rootAdmin |-> data.root_admin]

\* models/Location
LocationModel(data) ==
    [cls |-> "Location", id |-> data.id, shortCode |-> data.short,
     description |-> data.long]

\* models/Node
NodeModel(data) ==
    [cls |-> "Node", id |-> data.id, name |-> data.name,
     description |-> data.description, locationId |-> data.location_id,
     public |-> data.public, fqdn |-> data.fqdn, scheme |-> data.scheme,
     behindProxy |-> data.behind_proxy,
     maintenanceMode |-> data.maintenance_mode,
     uploadSize |-> data.upload_size, memory |-> data.memory,
     memoryOverAllocate |-> data.memory_overallocate, disk |-> data.disk,
     diskOverAllocate |-> data.disk_overallocate,
     daemonListen |-> data.daemon_listen, daemonSftp |-> data.daemon_sftp,
     daemonBase |-> data.daemon_base]

\* models/Server
ServerModel(data) ==
    [cls |-> "Server", id |-> data.id, externalId |-> data.external_id,
     name |-> data.name, description |-> data.description,
     suspended |-> data.suspended, user |-> data.user,
     allocation |-> data.allocation, egg |-> data.egg, pack |-> data.pack,
     limits |-> [memory |-> data.limits.memory, swap |-> data.limits.swap,
                 disk |-> data.limits.disk, io |-> data.limits.io,
                 cpu |-> data.limits.cpu],
     featureLimits |-> [databases |-> data.feature_limits.databases,
                        allocations |-> data.feature_limits.allocations],
     container |-> [startupCommand |-> data.container.startup_command,
                    image |-> data.container.image]]

\* models/Nest
NestModel(data) ==
    [cls |-> "Nest", id |-> data.id, name |-> data.name,
     description |-> data.description]

\* models/Egg
EggModel(data) ==
    [cls |-> "Egg", id |-> data.id, nest |-> data.nest, name |-> data.name,
     image |-> data.docker_image]

\* models/NodeAllocation: super(data, node)
NodeAllocationModel(data, node) ==
    [cls |-> "NodeAllocation", id |-> data.id, node |-> node, ip |-> data.ip,
     port |-> data.port, assigned |-> data.assigned]

\* models/ServerDatabase
ServerDatabaseModel(data) ==
    [cls |-> "ServerDatabase", id |-> data.id, server |-> data.server,
     database |-> data.database, host |-> data.host]

\* models/ClientServer
ClientServerModel(data) ==
    [cls |-> "ClientServer", identifier |-> data.identifier, name |-> data.name,
     limits |-> [memory |-> data.limits.memory, swap |-> data.limits.swap,
                 disk |-> data.limits.disk, io |-> data.limits.io,
                 cpu |-> data.limits.cpu],
     featureLimits |-> [databases |-> data.feature_limits.databases,
                        allocations |-> data.feature_limits.allocations]]

\* The object store: H.heap and H.cursors.  `by` is the invocation whose
\* handler ran the constructor (0: before the behaviour starts); `pagArg`
\* records whether the constructor was passed a truthy paginationOptions.
\* pagination is the index of the entity's Pagination object, 0 while the
\* member is unset (or, for Egg and ServerDatabase, not declared at all).
EmptyStore == [heap |-> <<>>, cursors |-> <<>>]

WithPagination_shared(H, model, paginationOptions, by) ==
    LET mine == {c \in 1..Len(H.cursors) : H.cursors[c].by = by}
    IN  IF paginationOptions.present /\ mine # {}
        THEN [heap |-> Append(H.heap,
                         model @@ [pagination |-> CHOOSE c \in mine : TRUE,
                                   by |-> by, pagArg |-> TRUE]),
              cursors |-> H.cursors]
        ELSE IF paginationOptions.present
        THEN [heap |-> Append(H.heap,
                         model @@ [pagination |-> Len(H.cursors) + 1, by |-> by,
                                   pagArg |-> TRUE]),
              cursors |-> Append(H.cursors,
                                 Pagination(paginationOptions) @@ [by |-> by])]
        ELSE [heap |-> Append(H.heap,
                         model @@ [pagination |-> 0, by |-> by, pagArg |-> FALSE]),
              cursors |-> H.cursors]

\* super(data); this.api = api;
\* if (paginationOptions) this.pagination = new Pagination(paginationOptions);
WithPagination(H, model, paginationOptions, by) ==
    IF paginationOptions.present
    THEN [heap |-> Append(H.heap,
                     model @@ [pagination |-> Len(H.cursors) + 1, by |-> by,
                               pagArg |-> TRUE]),
          cursors |-> Append(H.cursors,
                             Pagination(paginationOptions) @@ [by |-> by])]
    ELSE [heap |-> Append(H.heap,
                     model @@ [pagination |-> 0, by |-> by, pagArg |-> FALSE]),
          cursors |-> H.cursors]

\* constructor(api, data): super(data); this.api = api;
WithoutPagination(H, model, by) ==
    [heap |-> Append(H.heap,
                model @@ [pagination |-> 0, by |-> by, pagArg |-> FALSE]),
     cursors |-> H.cursors]

User_constructor(H, data, paginationOptions, by) ==
    WithPagination(H, UserModel(data), paginationOptions, by)

Location_constructor(H, data, paginationOptions, by) ==
    WithPagination(H, LocationModel(data), paginationOptions, by)

Node_constructor(H, data, paginationOptions, by) ==
    WithPagination(H, NodeModel(data), paginationOptions, by)

Server_constructor(H, data, paginationOptions, by) ==
    WithPagination(H, ServerModel(data), paginationOptions, by)

Nest_constructor(H, data, paginationOptions, by) ==
    WithPagination(H, NestModel(data), paginationOptions, by)

ClientServer_constructor(H, data, paginationOptions, by) ==
    WithPagination(H, ClientServerModel(data), paginationOptions, by)

NodeAllocation_constructor(H, node, data, paginationOptions, by) ==
    WithPagination(H, NodeAllocationModel(data, node), paginationOptions, by)

Egg_constructor(H, data, by) == WithoutPagination(H, EggModel(data), by)

ServerDatabase_constructor(H, data, by) ==
    WithoutPagination(H, ServerDatabaseModel(data), by)

\* new cls(api, [node,] data [, paginationOptions]); node is the owning
\* node a NodeAllocation is given (0 for the other classes).
Construct(cls, node, H, data, paginationOptions, by) ==
    CASE cls = "User" -> User_constructor(H, data, paginationOptions, by)
      [] cls = "Nest" -> Nest_constructor(H, data, paginationOptions, by)
      [] cls = "ClientServer" ->
            ClientServer_constructor(H, data, paginationOptions, by)
      [] cls = "NodeAllocation" ->
            NodeAllocation_constructor(H, node, data, paginationOptions, by)
      [] cls = "Egg" -> Egg_constructor(H, data, by)
      [] cls = "ServerDatabase" -> ServerDatabase_constructor(H, data, by)
      [] cls = "Node" -> Node_constructor(H, data, paginationOptions, by)
      [] cls = "Server" -> Server_constructor(H, data, paginationOptions, by)
      [] cls = "Location" -> Location_constructor(H, data, paginationOptions, by)

RawOf(cls, id, r) ==
    CASE cls = "User" -> RawUser(id, r)
      [] cls = "Nest" -> RawNest(id, r)
      [] cls = "Egg" -> RawEgg(id, r)
      [] cls = "NodeAllocation" -> RawNodeAllocation(id, r)
      [] cls = "ServerDatabase" -> RawServerDatabase(id, r)
      [] cls = "ClientServer" -> RawClientServer(id, r)
      [] cls = "Node" -> RawNode(id, r)
      [] cls = "Server" -> RawServer(id, r)
      [] cls = "Location" -> RawLocation(id, r)

\* ------------------------------------------------------- invocations
\* Object.assign(request, data): data's own keys overwrite request's.
ObjectAssign(request, data) ==
    [k \in DOMAIN request \cup DOMAIN data |->
        IF k \in DOMAIN data THEN data[k] ELSE request[k]]

\* api.call(path, method, body, noBody); a path is its template and the
\* values interpolated into it.
Call(tpl, args, method, hasBody, body, noBody) ==
    [tpl |-> tpl, args |-> args, method |-> method, hasBody |-> hasBody,
     body |-> body, noBody |-> noBody]

Get(tpl, args) == Call(tpl, args, "GET", FALSE, <<>>, FALSE)

\* What the code after the await does with a successful response:
\* kind "one": resolve(new cls(api, res.data.attributes));
\* kind "list": resolve(res.data.map((value) => new cls(api, value.attributes
\*              [, res.pagination])));
\* pag: whether res.pagination is handed to the constructor;
\* settles: whether the promise handed to the caller is the one that
\* resolve/reject belong to.
ResolveNew_paged(cls) ==
    [kind |-> "one", cls |-> cls, node |-> 0, pag |-> TRUE, settles |-> TRUE]

ResolveNew(cls) ==
    [kind |-> "one", cls |-> cls, node |-> 0, pag |-> FALSE, settles |-> TRUE]

ResolveList(cls, node, pag) ==
    [kind |-> "list", cls |-> cls, node |-> node, pag |-> pag, settles |-> TRUE]

\* new Promise((resolve, reject) => { return new Promise(async (resolve, reject) => ...) }):
\* the inner resolve/reject shadow the outer ones, which are never called.
ResolveNewInner(cls) ==
    [kind |-> "one", cls |-> cls, node |-> 0, pag |-> FALSE, settles |-> FALSE]

\* The synchronous part of a method invoked on instance i (0: static).
\* thisAtCall is the instance as api.call's arguments are evaluated,
\* thisAtReturn the instance when the method returns its promise.
\* entry names the public method the caller invoked and the argument it
\* passed: the method itself, or a facade method that forwards to it.
Entry(name, arg) == [name |-> name, arg |-> arg]

\* The calls the transport has not answered yet, and how many it has.
InFlight == {j \in 1..Len(calls) : calls[j].state = "pending"}

Answered == Len(calls) - Cardinality(InFlight)

\* A transport call in flight: what was asked, by which invocation, and
\* (for the properties) the instance and the changes object at that moment,
\* the calls in flight at that moment, and (seq) its place in the order in
\* which the transport answers.
Issued(call, o, this, changes) ==
    call @@ [op |-> o, state |-> "pending", atIssue |-> this,
             changes |-> changes, inflight |-> InFlight, seq |-> 0,
             res |-> <<>>, error |-> 0]

InvokeVia(entry, name, i, thisAtCall, thisAtReturn, arg, changes, call, cont) ==
    /\ Len(ops) < MaxOps
    /\ heap' = IF i = 0 THEN heap ELSE [heap EXCEPT ![i] = thisAtReturn]
    /\ ops' = Append(ops, [entry |-> entry, name |-> name, this |-> i,
                           arg |-> arg, cont |-> cont,
                           promise |-> "pending", result |-> <<>>,
                           value |-> <<>>, error |-> 0])
    /\ calls' = Append(calls, Issued(call, Len(ops) + 1, thisAtCall, changes))
    /\ UNCHANGED cursors

Invoke(name, i, thisAtCall, thisAtReturn, arg, changes, call, cont) ==
    InvokeVia(Entry(name, arg), name, i, thisAtCall, thisAtReturn, arg, changes,
              call, cont)

\* A static method: no instance, no changes object.
Static(entry, name, arg, call, cont) ==
    InvokeVia(entry, name, 0, <<>>, <<>>, arg, <<>>, call, cont)

\* A setter: `this.field = value` (already applied in `this`), then the call.
Setter(name, i, this, arg, changes, call, cont) ==
    Invoke(name, i, this, this, arg, changes, call, cont)

\* ---------------------------------------------------------------- User
User_getRequestObject(this, data) ==
    ObjectAssign([username |-> this.username, email |-> this.email,
                  first_name |-> this.firstName, last_name |-> this.lastName],
                 data)

UserPatch(this, data) ==
    Call("/application/users/{id}", <<this.id>>, "PATCH", TRUE,
         User_getRequestObject(this, data), FALSE)

User_setExternalId(i, externalId) ==
    LET this == [heap[i] EXCEPT !.externalId = externalId]
        data == [external_id |-> externalId]
    IN  Setter("User_setExternalId", i, this, externalId, data,
               UserPatch(this, data), ResolveNew("User"))

\* The assignment made after the call was issued.
User_setUsername_late(i, username) ==
    LET data == [username |-> username]
    IN  Invoke("User_setUsername", i, heap[i],
               [heap[i] EXCEPT !.username = username], username, data,
               UserPatch(heap[i], data), ResolveNew("User"))

User_setUsername(i, username) ==
    LET this == [heap[i] EXCEPT !.username = username]
        data == [username |-> username]
    IN  Setter("User_setUsername", i, this, username, data,
               UserPatch(this, data), ResolveNew("User"))

User_setEmail_noAssign(i, email) ==
    LET this == heap[i]
        data == [email |-> email]
    IN  Setter("User_setEmail", i, this, email, data,
               UserPatch(this, data), ResolveNew("User"))

User_setEmail(i, email) ==
    LET this == [heap[i] EXCEPT !.email = email]
        data == [email |-> email]
    IN  Setter("User_setEmail", i, this, email, data,
               UserPatch(this, data), ResolveNew("User"))

\* The last name assigned as well.
User_setFirstName_alsoLast(i, firstName) ==
    LET this == [heap[i] EXCEPT !.firstName = firstName, !.lastName = firstName]
        data == [first_name |-> firstName]
    IN  Setter("User_setFirstName", i, this, firstName, data,
               UserPatch(this, data), ResolveNew("User"))

User_setFirstName(i, firstName) ==
    LET this == [heap[i] EXCEPT !.firstName = firstName]
        data == [first_name |-> firstName]
    IN  Setter("User_setFirstName", i, this, firstName, data,
               UserPatch(this, data), ResolveNew("User"))

User_setLastName(i, lastName) ==
    LET this == [heap[i] EXCEPT !.lastName = lastName]
        data == [last_name |-> lastName]
    IN  Setter("User_setLastName", i, this, lastName, data,
               UserPatch(this, data), ResolveNew("User"))

\* No local assignment: the instance keeps no password.
User_setPassword(i, password) ==
    LET this == heap[i]
        data == [password |-> password]
    IN  Setter("User_setPassword", i, this, password, data,
               UserPatch(this, data), ResolveNew("User"))

User_setAdmin(i, admin) ==
    LET this == [heap[i] EXCEPT !.rootAdmin = admin]
        data == [root_admin |-> admin]
    IN  Setter("User_setAdmin", i, this, admin, data,
               UserPatch(this, data), ResolveNew("User"))

User_setLanguage(i, language) ==
    LET this == [heap[i] EXCEPT !.language = language]
        data == [language |-> language]
    IN  Setter("User_setLanguage", i, this, language, data,
               UserPatch(this, data), ResolveNew("User"))

\* ------------------------------------------------------------ Location
Location_getRequestObject(this, data) ==
    ObjectAssign([short |-> this.shortCode, long |-> this.description], data)

Location_setShortCode(i, shortCode) ==
    LET this == [heap[i] EXCEPT !.shortCode = shortCode]
        data == [short |-> shortCode]
    IN  Setter("Location_setShortCode", i, this, shortCode, data,
               Call("/application/locations", <<>>, "POST", TRUE,
                    Location_getRequestObject(this, data), FALSE),
               ResolveNewInner("Location"))

Location_setDescription(i, description) ==
    LET this == [heap[i] EXCEPT !.description = description]
        data == [long |-> description]
    IN  Setter("Location_setDescription", i, this, description, data,
               Call("/application/locations", <<>>, "POST", TRUE,
                    Location_getRequestObject(this, data), FALSE),
               ResolveNewInner("Location"))

\* ---------------------------------------------------------------- Node
\* The changes alone, without the base.
Node_getRequestObject_changesOnly(this, data) == data

Node_getRequestObject(this, data) ==
    ObjectAssign([name |-> this.name, location_id |-> this.locationId,
                  fqdn |-> this.fqdn, scheme |-> this.scheme,
                  memory |-> this.memory,
                  memory_overallocate |-> this.memoryOverAllocate,
                  disk |-> this.disk,
                  disk_overallocate |-> this.diskOverAllocate,
                  daemon_sftp |-> this.daemonSftp,
                  daemon_listen |-> this.daemonListen],
                 data)

NodePatch(this, data) ==
    Call("/application/nodes/{id}", <<this.id>>, "PATCH", TRUE,
         Node_getRequestObject(this, data), FALSE)

Node_setPublic(i, isPublic) ==
    LET this == [heap[i] EXCEPT !.public = isPublic]
        data == [public |-> isPublic]
    IN  Setter("Node_setPublic", i, this, isPublic, data,
               NodePatch(this, data), ResolveNew("Node"))

Node_setName(i, name) ==
    LET this == [heap[i] EXCEPT !.name = name]
        data == [name |-> name]
    IN  Setter("Node_setName", i, this, name, data,
               NodePatch(this, data), ResolveNew("Node"))

Node_setDescription(i, description) ==
    LET this == [heap[i] EXCEPT !.description = description]
        data == [description |-> description]
    IN  Setter("Node_setDescription", i, this, description, data,
               NodePatch(this, data), ResolveNew("Node"))

Node_setLocation(i, locationId) ==
    LET this == [heap[i] EXCEPT !.locationId = locationId]
        data == [location_id |-> locationId]
    IN  Setter("Node_setLocation", i, this, locationId, data,
               NodePatch(this, data), ResolveNew("Node"))

Node_setFQDN(i, fqdn) ==
    LET this == [heap[i] EXCEPT !.fqdn = fqdn]
        data == [fqdn |-> fqdn]
    IN  Setter("Node_setFQDN", i, this, fqdn, data,
               NodePatch(this, data), ResolveNew("Node"))

Node_setScheme(i, scheme) ==
    LET this == [heap[i] EXCEPT !.scheme = scheme]
        data == [scheme |-> scheme]
    IN  Setter("Node_setScheme", i, this, scheme, data,
               NodePatch(this, data), ResolveNew("Node"))

Node_setBehindProxy(i, behindProxy) ==
    LET this == [heap[i] EXCEPT !.behindProxy = behindProxy]
        data == [behind_proxy |-> behindProxy]
    IN  Setter("Node_setBehindProxy", i, this, behindProxy, data,
               NodePatch(this, data), ResolveNew("Node"))

Node_setMaintenanceMode(i, maintenanceMode) ==
    LET this == [heap[i] EXCEPT !.maintenanceMode = maintenanceMode]
        data == [maintenance_mode |-> maintenanceMode]
    IN  Setter("Node_setMaintenanceMode", i, this, maintenanceMode, data,
               NodePatch(this, data), ResolveNew("Node"))

Node_setUploadSize(i, size) ==
    LET this == [heap[i] EXCEPT !.uploadSize = size]
        data == [upload_size |-> size]
    IN  Setter("Node_setUploadSize", i, this, size, data,
               NodePatch(this, data), ResolveNew("Node"))

Node_setMemory_firstWins(i, memory) ==
    LET this == [heap[i] EXCEPT !.memory = memory]
        data == [memory |-> memory]
        racing == \E j \in InFlight : /\ ops[calls[j].op].name = "Node_setMemory"
                                       /\ ops[calls[j].op].this = i
    IN  Invoke("Node_setMemory", i, this, IF racing THEN heap[i] ELSE this,
               memory, data, NodePatch(this, data), ResolveNew("Node"))

Node_setMemory(i, memory) ==
    LET this == [heap[i] EXCEPT !.memory = memory]
        data == [memory |-> memory]
    IN  Setter("Node_setMemory", i, this, memory, data,
               NodePatch(this, data), ResolveNew("Node"))

Node_setMemoryOverAllocate(i, memoryOverAllocate) ==
    LET this == [heap[i] EXCEPT !.memoryOverAllocate = memoryOverAllocate]
        data == [memory_overallocate |-> memoryOverAllocate]
    IN  Setter("Node_setMemoryOverAllocate", i, this, memoryOverAllocate, data,
               NodePatch(this, data), ResolveNew("Node"))

Node_setDisk(i, disk) ==
    LET this == [heap[i] EXCEPT !.disk = disk]
        data == [disk |-> disk]
    IN  Setter("Node_setDisk", i, this, disk, data,
               NodePatch(this, data), ResolveNew("Node"))

Node_setDiskOverAllocate(i, diskOverAllocate) ==
    LET this == [heap[i] EXCEPT !.diskOverAllocate = diskOverAllocate]
        data == [disk_overallocate |-> diskOverAllocate]
    IN  Setter("Node_setDiskOverAllocate", i, this, diskOverAllocate, data,
               NodePatch(this, data), ResolveNew("Node"))

Node_setDaemonPort(i, port) ==
    LET this == [heap[i] EXCEPT !.daemonListen = port]
        data == [daemon_listen |-> port]
    IN  Setter("Node_setDaemonPort", i, this, port, data,
               NodePatch(this, data), ResolveNew("Node"))

Node_setDaemonSftpPort(i, port) ==
    LET this == [heap[i] EXCEPT !.daemonSftp = port]
        data == [daemon_sftp |-> port]
    IN  Setter("Node_setDaemonSftpPort", i, this, port, data,
               NodePatch(this, data), ResolveNew("Node"))

Node_setDaemonBase(i, baseDirectory) ==
    LET this == [heap[i] EXCEPT !.daemonBase = baseDirectory]
        data == [daemon_base |-> baseDirectory]
    IN  Setter("Node_setDaemonBase", i, this, baseDirectory, data,
               NodePatch(this, data), ResolveNew("Node"))

\* -------------------------------------------------------------- Server
\* Object.assign with its arguments exchanged: the base wins.
Server_getDetailsRequestObject_baseWins(this, data) ==
    ObjectAssign(data, [name |-> this.name, user |-> this.user])

Server_getDetailsRequestObject(this, data) ==
    ObjectAssign([name |-> this.name, user |-> this.user], data)

Server_getBuildRequestObject(this, data) ==
    ObjectAssign([allocation |-> this.allocation, limits |-> this.limits,
                  feature_limits |-> this.featureLimits],
                 data)

Server_getStartupRequestObject(this, data) ==
    ObjectAssign([startup |-> this.container.startupCommand, egg |-> this.egg,
                  image |-> this.container.image],
                 data)

DetailsPatch(this, body) ==
    Call("/application/servers/{id}/details", <<this.id>>, "PATCH", TRUE, body, FALSE)

BuildPatch(this, body) ==
    Call("/application/servers/{id}/build", <<this.id>>, "PATCH", TRUE, body, FALSE)

StartupPatch(this, body) ==
    Call("/application/servers/{id}/startup", <<this.id>>, "PATCH", TRUE, body, FALSE)

\* updateDetails with the assignment the single-field setters make.
Server_updateDetails_assigns(i, options) ==
    LET this == IF "name" \in DOMAIN options
                THEN [heap[i] EXCEPT !.name = options.name]
                ELSE [heap[i] EXCEPT !.description = options.description]
    IN  Setter("Server_updateDetails", i, this, options, options,
               DetailsPatch(this, Server_getDetailsRequestObject(this, options)),
               ResolveNew("Server"))

\* No local assignment in the three update* methods.
Server_updateDetails(i, options) ==
    LET this == heap[i]
    IN  Setter("Server_updateDetails", i, this, options, options,
               DetailsPatch(this, Server_getDetailsRequestObject(this, options)),
               ResolveNew("Server"))

Server_updateBuild(i, options) ==
    LET this == heap[i]
    IN  Setter("Server_updateBuild", i, this, options, options,
               BuildPatch(this, Server_getBuildRequestObject(this, options)),
               ResolveNew("Server"))

Server_updateStartup(i, options) ==
    LET this == heap[i]
    IN  Setter("Server_updateStartup", i, this, options, options,
               StartupPatch(this, Server_getStartupRequestObject(this, options)),
               ResolveNew("Server"))

Server_setName(i, name) ==
    LET this == [heap[i] EXCEPT !.name = name]
        data == [name |-> name]
    IN  Setter("Server_setName", i, this, name, data,
               DetailsPatch(this, Server_getDetailsRequestObject(this, data)),
               ResolveNew("Server"))

Server_setDescription(i, description) ==
    LET this == [heap[i] EXCEPT !.description = description]
        data == [description |-> description]
    IN  Setter("Server_setDescription", i, this, description, data,
               DetailsPatch(this, Server_getDetailsRequestObject(this, data)),
               ResolveNew("Server"))

Server_setUser(i, user) ==
    LET this == [heap[i] EXCEPT !.user = user]
        data == [user |-> user]
    IN  Setter("Server_setUser", i, this, user, data,
               DetailsPatch(this, Server_getDetailsRequestObject(this, data)),
               ResolveNew("Server"))

\* PATCHes the details endpoint with the details base, unlike its siblings.
Server_setMemory(i, memory) ==
    LET this == [heap[i] EXCEPT !.limits.memory = memory]
        data == [limits |-> [memory |-> memory]]
    IN  Setter("Server_setMemory", i, this, memory, data,
               DetailsPatch(this, Server_getDetailsRequestObject(this, data)),
               ResolveNew("Server"))

\* The overlay built from the entity's limits: siblings preserved.
Server_setCPU_deep(i, cpu) ==
    LET this == [heap[i] EXCEPT !.limits.cpu = cpu]
        data == [limits |-> this.limits]
    IN  Setter("Server_setCPU", i, this, cpu, data,
               BuildPatch(this, Server_getBuildRequestObject(this, data)),
               ResolveNew("Server"))

Server_setCPU(i, cpu) ==
    LET this == [heap[i] EXCEPT !.limits.cpu = cpu]
        data == [limits |-> [cpu |-> cpu]]
    IN  Setter("Server_setCPU", i, this, cpu, data,
               BuildPatch(this, Server_getBuildRequestObject(this, data)),
               ResolveNew("Server"))

Server_setDisk(i, disk) ==
    LET this == [heap[i] EXCEPT !.limits.disk = disk]
        data == [limits |-> [disk |-> disk]]
    IN  Setter("Server_setDisk", i, this, disk, data,
               BuildPatch(this, Server_getBuildRequestObject(this, data)),
               ResolveNew("Server"))

Server_setIO(i, io) ==
    LET this == [heap[i] EXCEPT !.limits.io = io]
        data == [limits |-> [io |-> io]]
    IN  Setter("Server_setIO", i, this, io, data,
               BuildPatch(this, Server_getBuildRequestObject(this, data)),
               ResolveNew("Server"))

Server_setSwap(i, swap) ==
    LET this == [heap[i] EXCEPT !.limits.swap = swap]
        data == [limits |-> [swap |-> swap]]
    IN  Setter("Server_setSwap", i, this, swap, data,
               BuildPatch(this, Server_getBuildRequestObject(this, data)),
               ResolveNew("Server"))

Server_setDatabaseAmount(i, amount) ==
    LET this == [heap[i] EXCEPT !.featureLimits.databases = amount]
        data == [feature_limits |-> [databases |-> amount]]
    IN  Setter("Server_setDatabaseAmount", i, this, amount, data,
               BuildPatch(this, Server_getBuildRequestObject(this, data)),
               ResolveNew("Server"))

Server_setAllocationAmount(i, amount) ==
    LET this == [heap[i] EXCEPT !.featureLimits.allocations = amount]
        data == [feature_limits |-> [allocations |-> amount]]
    IN  Setter("Server_setAllocationAmount", i, this, amount, data,
               BuildPatch(this, Server_getBuildRequestObject(this, data)),
               ResolveNew("Server"))

Server_setStartupCommand(i, command) ==
    LET this == [heap[i] EXCEPT !.container.startupCommand = command]
        data == [startup |-> command]
    IN  Setter("Server_setStartupCommand", i, this, command, data,
               StartupPatch(this, Server_getStartupRequestObject(this, data)),
               ResolveNew("Server"))

Server_setEgg(i, egg) ==
    LET this == [heap[i] EXCEPT !.egg = egg]
        data == [egg |-> egg]
    IN  Setter("Server_setEgg", i, this, egg, data,
               StartupPatch(this, Server_getStartupRequestObject(this, data)),
               ResolveNew("Server"))

Server_setPack(i, pack) ==
    LET this == [heap[i] EXCEPT !.pack = pack]
        data == [pack |-> pack]
    IN  Setter("Server_setPack", i, this, pack, data,
               StartupPatch(this, Server_getStartupRequestObject(this, data)),
               ResolveNew("Server"))

Server_setImage(i, image) ==
    LET this == [heap[i] EXCEPT !.container.image = image]
        data == [image |-> image]
    IN  Setter("Server_setImage", i, this, image, data,
               StartupPatch(this, Server_getStartupRequestObject(this, data)),
               ResolveNew("Server"))

\* updateServer sending what updateDetails sends.
Server_updateServer_withBase(i, data) ==
    Setter("Server_updateServer", i, heap[i], data, data,
           DetailsPatch(heap[i], Server_getDetailsRequestObject(heap[i], data)),
           ResolveNew("Server"))

\* The caller's object is the body as it is: no base, no local assignment.
Server_updateServer(i, data) ==
    Setter("Server_updateServer", i, heap[i], data, data,
           DetailsPatch(heap[i], data), ResolveNew("Server"))

Server_updateServerBuild(i, data) ==
    Setter("Server_updateServerBuild", i, heap[i], data, data,
           BuildPatch(heap[i], data), ResolveNew("Server"))

Server_updateServerStartup(i, data) ==
    Setter("Server_updateServerStartup", i, heap[i], data, data,
           StartupPatch(heap[i], data), ResolveNew("Server"))

\* ----------------------------------------------- other instance methods
\* resolve() with no value; settles as for ResolveNew.
ResolveVoid == [kind |-> "none", settles |-> TRUE]

\* The promise that resolve/reject belong to is wrapped in an outer promise
\* whose executor calls neither.
ResolveVoidInner == [kind |-> "none", settles |-> FALSE]

\* A method that assigns nothing: new Promise(async ...) up to the await.
Method(name, i, arg, call, cont) ==
    Invoke(name, i, heap[i], heap[i], arg, <<>>, call, cont)

\* A method that awaits nothing: the promise is resolved on return.
Local(name, i, value) ==
    /\ Len(ops) < MaxOps + MaxReads
    /\ ops' = Append(ops, [entry |-> Entry(name, 0), name |-> name, this |-> i,
                           arg |-> 0, cont |-> ResolveVoid,
                           promise |-> "resolved", result |-> <<>>,
                           value |-> <<value>>, error |-> 0])
    /\ UNCHANGED <<heap, cursors, calls>>

Delete(tpl, args) == Call(tpl, args, "DELETE", FALSE, <<>>, FALSE)

\* api.call(path, 'POST') and api.call(path, 'POST', null, true)
Post(tpl, args, noBody) == Call(tpl, args, "POST", FALSE, <<>>, noBody)

PostBody(tpl, args, body, noBody) == Call(tpl, args, "POST", TRUE, body, noBody)

User_delete(i) ==
    Method("User_delete", i, 0,
           Delete("/application/users/{id}", <<heap[i].id>>), ResolveVoid)

Node_delete(i) ==
    Method("Node_delete", i, 0,
           Delete("/application/nodes/{id}", <<heap[i].id>>), ResolveVoid)

Location_delete(i) ==
    Method("Location_delete", i, 0,
           Delete("/application/locations/{id}", <<heap[i].id>>),
           ResolveVoidInner)

Server_delete_neverForce(i, force) ==
    Method("Server_delete", i, force,
           Delete("/application/servers/{id}", <<heap[i].id>>), ResolveVoid)

\* force: "true", "false" or "undefined" (omitted)
Server_delete(i, force) ==
    Method("Server_delete", i, force,
           Delete(IF force = "true" THEN "/application/servers/{id}/force"
                                    ELSE "/application/servers/{id}",
                  <<heap[i].id>>),
           ResolveVoid)

\* api.call(path): no method argument
NodeAllocation_delete(i) ==
    Method("NodeAllocation_delete", i, 0,
           Get("/application/nodes/{node}/allocations/{id}",
               <<heap[i].node, heap[i].id>>),
           ResolveVoid)

ServerDatabase_delete(i) ==
    Method("ServerDatabase_delete", i, 0,
           Delete("/application/servers/{server}/databases/{id}",
                  <<heap[i].server, heap[i].id>>),
           ResolveVoidInner)

ServerDatabase_resetPassword(i) ==
    Method("ServerDatabase_resetPassword", i, 0,
           Post("/application/servers/{server}/databases/{id}/reset-password",
                <<heap[i].server, heap[i].id>>, FALSE),
           ResolveVoid)

Server_isSuspended_fetch(i) ==
    Method("Server_isSuspended", i, 0,
           Get("/application/servers/{id}", <<heap[i].id>>), ResolveVoid)

\* new Promise((resolve, reject) => { resolve(this.suspended); })
Server_isSuspended(i) == Local("Server_isSuspended", i, heap[i].suspended)

\* suspend without the local assignment.
Server_suspend_remoteOnly(i) ==
    Setter("Server_suspend", i, heap[i], 0, <<>>,
           Post("/application/servers/{id}/suspend", <<heap[i].id>>, TRUE),
           ResolveVoid)

Server_suspend(i) ==
    LET this == [heap[i] EXCEPT !.suspended = TRUE]
    IN  Setter("Server_suspend", i, this, 0, <<>>,
               Post("/application/servers/{id}/suspend", <<this.id>>, TRUE),
               ResolveVoid)

Server_unsuspend(i) ==
    LET this == [heap[i] EXCEPT !.suspended = FALSE]
    IN  Setter("Server_unsuspend", i, this, 0, <<>>,
               Post("/application/servers/{id}/unsuspend", <<this.id>>, TRUE),
               ResolveVoid)

Server_reinstall(i) ==
    Method("Server_reinstall", i, 0,
           Post("/application/servers/{id}/reinstall", <<heap[i].id>>, FALSE),
           ResolveVoid)

Server_rebuild(i) ==
    Method("Server_rebuild", i, 0,
           Post("/application/servers/{id}/rebuild", <<heap[i].id>>, FALSE),
           ResolveVoid)

Server_createDatabase(i, name, remote, host) ==
    Method("Server_createDatabase", i, name,
           PostBody("/application/servers/{id}/databases", <<heap[i].id>>,
                    [database |-> name, remote |-> remote, host |-> host],
                    FALSE),
           ResolveNew("ServerDatabase"))

Node_createAllocations(i, ip, alias, ports) ==
    Method("Node_createAllocations", i, ip,
           PostBody("/application/nodes/{id}/allocations", <<heap[i].id>>,
                    [ip |-> ip, alias |-> alias, ports |-> ports], FALSE),
           ResolveVoid)

\* Both calls issued at once, neither awaited before the other.
ClientServer_resourceUtilization_concurrent(i) ==
    /\ Len(ops) < MaxOps
    /\ ops' = Append(ops, [entry |-> Entry("ClientServer_resourceUtilization", 0),
                           name |-> "ClientServer_resourceUtilization",
                           this |-> i, arg |-> 0,
                           cont |-> [kind |-> "utilization", settles |-> TRUE],
                           promise |-> "pending", result |-> <<>>,
                           value |-> <<>>, error |-> 0])
    /\ calls' = calls \o
         <<Issued(Get("/client/servers/{identifier}/resources",
                      <<heap[i].identifier>>), Len(ops) + 1, heap[i], <<>>),
           Issued(Get("/client/servers/{identifier}", <<heap[i].identifier>>),
                  Len(ops) + 1, heap[i], <<>>)>>
    /\ UNCHANGED <<heap, cursors>>

\* let res1 = await call(.../resources); let res2 = await call(...); the
\* continuation of the first await issues the second call.
ClientServer_resourceUtilization(i) ==
    Method("ClientServer_resourceUtilization", i, 0,
           Get("/client/servers/{identifier}/resources", <<heap[i].identifier>>),
           [kind |-> "call",
            call |-> Get("/client/servers/{identifier}", <<heap[i].identifier>>),
            then |-> [kind |-> "utilization", settles |-> TRUE],
            settles |-> TRUE])

ClientServer_powerState(i) ==
    Method("ClientServer_powerState", i, 0,
           Get("/client/servers/{identifier}/resources", <<heap[i].identifier>>),
           [kind |-> "state", settles |-> TRUE])

Power(i, name, signal) ==
    Method(name, i, signal,
           PostBody("/client/servers/{identifier}/power", <<heap[i].identifier>>,
                    [signal |-> signal], TRUE),
           ResolveVoid)

ClientServer_powerAction(i, signal) ==
    Power(i, "ClientServer_powerAction", signal)

ClientServer_start(i) == Power(i, "ClientServer_start", "start")

ClientServer_stop(i) == Power(i, "ClientServer_stop", "stop")

ClientServer_restart(i) == Power(i, "ClientServer_restart", "restart")

ClientServer_kill(i) == Power(i, "ClientServer_kill", "kill")

\* Promise.resolve(this.featureLimits.databases)
ClientServer_databases(i) ==
    Local("ClientServer_databases", i, heap[i].featureLimits.databases)

ClientServer_allocations(i) ==
    Local("ClientServer_allocations", i, heap[i].featureLimits.allocations)

ClientServer_sendCommand(i, command) ==
    Method("ClientServer_sendCommand", i, command,
           PostBody("/client/servers/{identifier}/command",
                    <<heap[i].identifier>>, [command |-> command], FALSE),
           ResolveVoid)

\* ------------------------------------------------------- listing, fetch
\* A page argument as JavaScript sees it: undefined (omitted), null, NaN,
\* or a number 0..MaxPage.
Number(n) == [kind |-> "number", n |-> n]

PageArgs ==
    {[kind |-> k, n |-> 0] : k \in {"undefined", "null", "NaN"}}
    \cup {Number(n) : n \in 0..MaxPage}

\* (page) ? page : page = 1;
DefaultPage(page) ==
    IF page.kind = "number" /\ page.n # 0 THEN page ELSE Number(1)

\* `...?page=${page}` with the resolved page
ListCall(tpl, args, page) == Get(tpl, Append(args, page.n))

User_getAll(entry, page) ==
    LET p == DefaultPage(page)
    IN  Static(entry, "User_getAll", page,
               ListCall("/application/users?page={page}", <<>>, p),
               ResolveList("User", 0, TRUE))

Node_getAll_nodefault(entry, page) ==
    Static(entry, "Node_getAll", page,
           ListCall("/application/nodes?page={page}", <<>>, page),
           ResolveList("Node", 0, TRUE))

Node_getAll(entry, page) ==
    LET p == DefaultPage(page)
    IN  Static(entry, "Node_getAll", page,
               ListCall("/application/nodes?page={page}", <<>>, p),
               ResolveList("Node", 0, TRUE))

Location_getAll(entry, page) ==
    LET p == DefaultPage(page)
    IN  Static(entry, "Location_getAll", page,
               ListCall("/application/locations?page={page}", <<>>, p),
               ResolveList("Location", 0, TRUE))

Server_getAll(entry, page) ==
    LET p == DefaultPage(page)
    IN  Static(entry, "Server_getAll", page,
               ListCall("/application/servers?page={page}", <<>>, p),
               ResolveList("Server", 0, TRUE))

Nest_getAll(entry, page) ==
    LET p == DefaultPage(page)
    IN  Static(entry, "Nest_getAll", page,
               ListCall("/application/nests?page={page}", <<>>, p),
               ResolveList("Nest", 0, TRUE))

ClientServer_getAll(entry, page) ==
    LET p == DefaultPage(page)
    IN  Static(entry, "ClientServer_getAll", page,
               ListCall("/client?page={page}", <<>>, p),
               ResolveList("ClientServer", 0, TRUE))

NodeAllocation_getAll(entry, node, page) ==
    LET p == DefaultPage(page)
    IN  Static(entry, "NodeAllocation_getAll", page,
               ListCall("/application/nodes/{node}/allocations?page={page}",
                        <<node>>, p),
               ResolveList("NodeAllocation", node, TRUE))

Egg_getAll_paged(entry, nest) ==
    Static(entry, "Egg_getAll", nest,
           ListCall("/application/nests/{nest}/eggs?page={page}", <<nest>>,
                    Number(1)),
           ResolveList("Egg", 0, TRUE))

\* No page parameter; new Egg(api, value.attributes)
Egg_getAll(entry, nest) ==
    Static(entry, "Egg_getAll", nest,
           Get("/application/nests/{nest}/eggs", <<nest>>),
           ResolveList("Egg", 0, FALSE))

\* No page parameter; new ServerDatabase(api, value.attributes)
ServerDatabase_getAll(entry, server) ==
    Static(entry, "ServerDatabase_getAll", server,
           Get("/application/servers/{server}/databases", <<server>>),
           ResolveList("ServerDatabase", 0, FALSE))

User_getById_paged(entry, id) ==
    Static(entry, "User_getById", id, Get("/application/users/{id}", <<id>>),
           [ResolveNew("User") EXCEPT !.pag = TRUE])

User_getById(entry, id) ==
    Static(entry, "User_getById", id, Get("/application/users/{id}", <<id>>),
           ResolveNew("User"))

User_getByExternalId(entry, externalId) ==
    Static(entry, "User_getByExternalId", externalId,
           Get("/application/users/external/{externalId}", <<externalId>>),
           ResolveNew("User"))

Node_getById(entry, id) ==
    Static(entry, "Node_getById", id, Get("/application/nodes/{id}", <<id>>),
           ResolveNew("Node"))

Location_getById(entry, id) ==
    Static(entry, "Location_getById", id,
           Get("/application/locations/{id}", <<id>>), ResolveNew("Location"))

Server_getById(entry, id) ==
    Static(entry, "Server_getById", id, Get("/application/servers/{id}", <<id>>),
           ResolveNew("Server"))

Server_getByExternalId(entry, externalId) ==
    Static(entry, "Server_getByExternalId", externalId,
           Get("/application/servers/external/{externalId}", <<externalId>>),
           ResolveNew("Server"))

Nest_getById(entry, id) ==
    Static(entry, "Nest_getById", id, Get("/application/nests/{id}", <<id>>),
           ResolveNew("Nest"))

Egg_getById(entry, nest, id) ==
    Static(entry, "Egg_getById", id,
           Get("/application/nests/{nest}/eggs/{id}", <<nest, id>>),
           ResolveNew("Egg"))

ServerDatabase_getById(entry, server, id) ==
    Static(entry, "ServerDatabase_getById", id,
           Get("/application/servers/{server}/databases/{id}", <<server, id>>),
           ResolveNew("ServerDatabase"))

\* The fetch on the listing's path.
ClientServer_getById_client(entry, id) ==
    Static(entry, "ClientServer_getById", id,
           Get("/client/{id}", <<id>>), ResolveNew("ClientServer"))

ClientServer_getById(entry, id) ==
    Static(entry, "ClientServer_getById", id,
           Get("/client/servers/{id}", <<id>>), ResolveNew("ClientServer"))

\* The options a caller hands to create: every field set to one token, or
\* one field set to another token than the rest.
VariedIn(options) ==
    {[options EXCEPT ![f] = w] : f \in DOMAIN options, w \in Vals}

NewUserOptions ==
    UNION {VariedIn([externalId |-> v, username |-> v, email |-> v,
                     firstName |-> v, lastName |-> v, password |-> v,
                     admin |-> v, language |-> v]) : v \in Vals}

\* first_name and last_name exchanged.
User_getCreateOptions_swapped(options) ==
    [external_id |-> options.externalId, username |-> options.username,
     email |-> options.email, first_name |-> options.lastName,
     last_name |-> options.firstName, password |-> options.password,
     root_admin |-> options.admin, language |-> options.language]

User_getCreateOptions(options) ==
    [external_id |-> options.externalId, username |-> options.username,
     email |-> options.email, first_name |-> options.firstName,
     last_name |-> options.lastName, password |-> options.password,
     root_admin |-> options.admin, language |-> options.language]

User_create(entry, options) ==
    Static(entry, "User_create", options,
           Call("/application/users", <<>>, "POST", TRUE,
                User_getCreateOptions(options), FALSE),
           ResolveNew("User"))

NewNodeOptions ==
    UNION {VariedIn([name |-> v, description |-> v, locationId |-> v,
                     public |-> v, fqdn |-> v, scheme |-> v, behindProxy |-> v,
                     memory |-> v, memoryOverAllocate |-> v, disk |-> v,
                     diskOverAllocate |-> v, daemonBase |-> v, daemonPort |-> v,
                     daemonSftpPort |-> v, maintenanceMode |-> v,
                     uploadSize |-> v]) : v \in Vals}

Node_getCreateOptions(options) ==
    [name |-> options.name, description |-> options.description,
     location_id |-> options.locationId, public |-> options.public,
     fqdn |-> options.fqdn, scheme |-> options.scheme,
     behind_proxy |-> options.behindProxy, memory |-> options.memory,
     memory_overallocate |-> options.memoryOverAllocate, disk |-> options.disk,
     disk_overallocate |-> options.diskOverAllocate,
     daemon_base |-> options.daemonBase, daemon_listen |-> options.daemonPort,
     daemon_sftp |-> options.daemonSftpPort,
     maintenance_mode |-> options.maintenanceMode,
     upload_size |-> options.uploadSize]

Node_create(entry, options) ==
    Static(entry, "Node_create", options,
           Call("/application/nodes", <<>>, "POST", TRUE,
                Node_getCreateOptions(options), FALSE),
           ResolveNew("Node"))

NewLocationOptions == {[shortCode |-> v, description |-> w] : v, w \in Vals}

\* { short: options.shortCode, long: options.description }
Location_create(entry, options) ==
    Static(entry, "Location_create", options,
           Call("/application/locations", <<>>, "POST", TRUE,
                [short |-> options.shortCode, long |-> options.description],
                FALSE),
           ResolveNew("Location"))

\* A member given as null: an object-valued option that is falsy.
Null == [null |-> TRUE]

\* allocation and deploy are optional: absent, falsy (0, null), or set.
NewServerOptions ==
    {base @@ a @@ d :
        base \in UNION {VariedIn([externalId |-> v, name |-> v, user |-> v,
                                  description |-> v, egg |-> v, pack |-> v,
                                  image |-> v, startup |-> v, limits |-> v,
                                  featureLimits |-> v, environment |-> v,
                                  startWhenInstalled |-> v, skipScripts |-> v,
                                  outOfMemoryKiller |-> v]) : v \in Vals},
        a \in {<<>>, [allocation |-> 0], [allocation |-> 1]},
        d \in {<<>>, [deploy |-> Null],
               [deploy |-> [locations |-> 1, dedicatedIp |-> 2,
                            portRange |-> 1]]}}

\* Reading an optional member: truthy only when present and neither 0
\* (a number) nor null (an object).
Truthy(options, key) ==
    /\ key \in DOMAIN options
    /\ IF key = "deploy" THEN options[key] # Null ELSE options[key] # 0

\* allocation copied whenever the member is present, 0 included.
Server_getCreateOptions_whenPresent(options) ==
    LET opts == [external_id |-> options.externalId, name |-> options.name,
                 user |-> options.user, description |-> options.description,
                 egg |-> options.egg, pack |-> options.pack,
                 docker_image |-> options.image, startup |-> options.startup,
                 limits |-> options.limits,
                 feature_limits |-> options.featureLimits,
                 environment |-> options.environment,
                 start_on_completion |-> options.startWhenInstalled,
                 skip_scripts |-> options.skipScripts,
                 oom_disabled |-> options.outOfMemoryKiller]
        withAllocation ==
            IF "allocation" \in DOMAIN options
            THEN opts @@ [allocation |-> options.allocation] ELSE opts
    IN  IF Truthy(options, "deploy")
        THEN withAllocation @@
             [deploy |-> [locations |-> options.deploy.locations,
                          dedicated_ip |-> options.deploy.dedicatedIp,
                          port_range |-> options.deploy.portRange]]
        ELSE withAllocation

Server_getCreateOptions(options) ==
    LET opts == [external_id |-> options.externalId, name |-> options.name,
                 user |-> options.user, description |-> options.description,
                 egg |-> options.egg, pack |-> options.pack,
                 docker_image |-> options.image, startup |-> options.startup,
                 limits |-> options.limits,
                 feature_limits |-> options.featureLimits,
                 environment |-> options.environment,
                 start_on_completion |-> options.startWhenInstalled,
                 skip_scripts |-> options.skipScripts,
                 oom_disabled |-> options.outOfMemoryKiller]
        withAllocation ==
            IF Truthy(options, "allocation")
            THEN opts @@ [allocation |-> options.allocation] ELSE opts
    IN  IF Truthy(options, "deploy")
        THEN withAllocation @@
             [deploy |-> [locations |-> options.deploy.locations,
                          dedicated_ip |-> options.deploy.dedicatedIp,
                          port_range |-> options.deploy.portRange]]
        ELSE withAllocation

Server_create(entry, options) ==
    Static(entry, "Server_create", options,
           Call("/application/servers", <<>>, "POST", TRUE,
                Server_getCreateOptions(options), FALSE),
           ResolveNew("Server"))

\* ------------------------------------------------- the client facades
\* A facade as the base class leaves it: the panel's url and the key.
PterodactylAPI(cls, url, apiKey) ==
    [cls |-> cls, url |-> url, apiKey |-> apiKey, by |-> 0]

\* Errors are tokens: an error of the transport is the status it carries,
\* new Error("Non success status code received: <status>...") is NewError.
NewError(statusCode) == 1000 + statusCode

\* promise.catch(() => {}): the rejection is swallowed.
Chained_swallowed(cont, state, error) ==
    IF cont.caught
    THEN <<[state |-> IF state = "rejected" THEN "resolved" ELSE state,
            error |-> 0, handlers |-> 0]>>
    ELSE <<>>

\* promise.catch(error => { throw error }): the promise that catch returns,
\* to which the constructor attaches nothing.
Chained(cont, state, error) ==
    IF cont.caught THEN <<[state |-> state, error |-> error, handlers |-> 0]>>
                   ELSE <<>>

\* new Promise((resolve, reject) => { this.call(path).then(...).catch(...) })
ResolveOn200(caught) == [kind |-> "status", settles |-> TRUE, caught |-> caught]

testConnection(entry, name, i, this, heapAfter, path, caught) ==
    /\ Len(ops) < MaxOps
    /\ heap' = heapAfter
    /\ ops' = Append(ops, [entry |-> entry, name |-> name, this |-> i,
                           arg |-> 0, cont |-> ResolveOn200(caught),
                           promise |-> "pending", result |-> <<>>,
                           value |-> Chained(ResolveOn200(caught), "pending", 0),
                           error |-> 0])
    /\ calls' = Append(calls, Issued(Get(path, <<>>), Len(ops) + 1, this, <<>>))
    /\ UNCHANGED cursors

AdminClient_testConnection(i) ==
    testConnection(Entry("AdminClient_testConnection", 0),
                   "AdminClient_testConnection", i, heap[i], heap,
                   "/application/servers", FALSE)

UserClient_testConnection(i) ==
    testConnection(Entry("UserClient_testConnection", 0),
                   "UserClient_testConnection", i, heap[i], heap,
                   "/client", FALSE)

\* super(url, apiKey); this.testConnection().catch(error => { throw error })
AdminClient_constructor(url, apiKey) ==
    LET this == PterodactylAPI("AdminClient", url, apiKey)
    IN  testConnection(Entry("AdminClient_constructor", url),
                       "AdminClient_testConnection", Len(heap) + 1, this,
                       Append(heap, this), "/application/servers", TRUE)

UserClient_constructor(url, apiKey) ==
    LET this == PterodactylAPI("UserClient", url, apiKey)
    IN  testConnection(Entry("UserClient_constructor", url),
                       "UserClient_testConnection", Len(heap) + 1, this,
                       Append(heap, this), "/client", TRUE)

\* The client facades forward to the static methods.
AdminClient_getUsers(page) ==
    LET p == DefaultPage(page)
    IN  User_getAll(Entry("AdminClient_getUsers", page), p)

AdminClient_getNodes(page) ==
    Node_getAll(Entry("AdminClient_getNodes", page), page)

AdminClient_getLocations(page) ==
    Location_getAll(Entry("AdminClient_getLocations", page), page)

AdminClient_getServers(page) ==
    Server_getAll(Entry("AdminClient_getServers", page), page)

AdminClient_getNests(page) ==
    Nest_getAll(Entry("AdminClient_getNests", page), page)

UserClient_getClientServers(page) ==
    ClientServer_getAll(Entry("UserClient_getClientServers", page), page)

AdminClient_getUser(userId) ==
    User_getById(Entry("AdminClient_getUser", userId), userId)

AdminClient_getNode(nodeId) ==
    Node_getById(Entry("AdminClient_getNode", nodeId), nodeId)

AdminClient_getLocation(locationId) ==
    Location_getById(Entry("AdminClient_getLocation", locationId), locationId)

AdminClient_getServer(serverId) ==
    Server_getById(Entry("AdminClient_getServer", serverId), serverId)

AdminClient_getNest(nestId) ==
    Nest_getById(Entry("AdminClient_getNest", nestId), nestId)

AdminClient_getEgg(nestId, eggId) ==
    Egg_getById(Entry("AdminClient_getEgg", eggId), nestId, eggId)

UserClient_getClientServer(serverId) ==
    ClientServer_getById(Entry("UserClient_getClientServer", serverId), serverId)

\* Instance methods that forward with this.id.
Node_getAllocations(i, page) ==
    NodeAllocation_getAll(Entry("Node_getAllocations", page), heap[i].id, page)

Nest_getEggs(i) == Egg_getAll(Entry("Nest_getEggs", 0), heap[i].id)

Nest_getEgg(i, eggId) ==
    Egg_getById(Entry("Nest_getEgg", eggId), heap[i].id, eggId)

Server_databases(i) ==
    ServerDatabase_getAll(Entry("Server_databases", 0), heap[i].id)

Server_getDatabase(i, database) ==
    ServerDatabase_getById(Entry("Server_getDatabase", database), heap[i].id,
                           database)

\* ------------------------------------------------------------ transport
\* The entity id a single-entity response speaks of: the id the path names.
ResId(c) == IF c.args = <<>> THEN 1 ELSE c.args[Len(c.args)]

\* res.data.map((value) => new cls(api, value.attributes, res.pagination)),
\* left to right from element j on.
RECURSIVE MapNew(_, _, _, _, _, _, _)
MapNew(cls, node, H, data, paginationOptions, by, j) ==
    IF j > Len(data) THEN H
    ELSE MapNew(cls, node,
                Construct(cls, node, H, data[j], paginationOptions, by),
                data, paginationOptions, by, j + 1)

Reverse(s) == [j \in 1..Len(s) |-> s[Len(s) + 1 - j]]

Constructed_reversed(cont, H, res, by) ==
    CASE cont.kind = "one" ->
            Construct(cont.cls, cont.node, H, res.data[1],
                      IF cont.pag THEN res.pagination ELSE NoPagination, by)
      [] cont.kind = "list" ->
            MapNew(cont.cls, cont.node, H, Reverse(res.data),
                   IF cont.pag THEN res.pagination ELSE NoPagination, by, 1)
      [] OTHER -> H

\* The code after `await api.call(...)` when the call resolved with res:
\* the objects it constructs.
Constructed(cont, H, res, by) ==
    CASE cont.kind = "one" ->
            Construct(cont.cls, cont.node, H, res.data[1],
                      IF cont.pag THEN res.pagination ELSE NoPagination, by)
      [] cont.kind = "list" ->
            MapNew(cont.cls, cont.node, H, res.data,
                   IF cont.pag THEN res.pagination ELSE NoPagination, by, 1)
      [] OTHER -> H

\* ... and the value it resolves with (references into the heap).
Resolved(cont, H, H2) == [j \in 1..(Len(H2.heap) - Len(H.heap)) |-> Len(H.heap) + j]

\* The ids of the elements of a list response, in the panel's order.
ListData == UNION {[1..n -> Vals] : n \in 0..MaxData}

\* The page a list response speaks of: the one the path names, if any.
ListPage(c) ==
    IF c.tpl \in {"/application/nests/{nest}/eggs",
                  "/application/servers/{server}/databases"}
    THEN 1 ELSE c.args[Len(c.args)]

\* The status codes the transport resolves with: 2xx, and 0 when the
\* request never reached the panel.
ResolvedStatus == {0, 200, 204}

\* The responses the panel may give to call c.
Responses(c) ==
    LET cont == ops[c.op].cont
    IN  CASE c.tpl = "/client/servers/{identifier}/resources" ->
                {[statusCode |-> 200, data |-> <<RawResources(r)>>,
                  pagination |-> NoPagination] : r \in Vals}
          [] cont.kind = "utilization" ->
                {[statusCode |-> 200,
                  data |-> <<RawClientServer(ResId(c), r)>>,
                  pagination |-> NoPagination] : r \in Vals}
          [] cont.kind = "one" ->
                {[statusCode |-> 200, data |-> <<RawOf(cont.cls, ResId(c), r)>>,
                  pagination |-> pag] :
                    r \in Vals,
                    pag \in {NoPagination, RawPagination(1)}}
          [] cont.kind = "list" ->
                {[statusCode |-> 200,
                  data |-> [j \in 1..Len(ids) |->
                                RawOf(cont.cls, ids[j], ids[j])],
                  pagination |-> pag] :
                    ids \in ListData,
                    pag \in {NoPagination, RawPagination(ListPage(c))}}
          [] cont.kind = "status" ->
                {[statusCode |-> status, data |-> <<>>,
                  pagination |-> NoPagination] : status \in ResolvedStatus}
          [] OTHER ->
                {[statusCode |-> 204, data |-> <<>>, pagination |-> NoPagination]}

\* The response of the earlier call of invocation o to the resources path.
Res1(o) ==
    LET k1 == CHOOSE j \in 1..Len(calls) :
                /\ calls[j].op = o
                /\ calls[j].state = "ok"
                /\ calls[j].tpl = "/client/servers/{identifier}/resources"
    IN  calls[k1].res

\* The value a method that constructs nothing resolves with.
Value(cont, o, res) ==
    CASE cont.kind = "state" -> <<res.data[1].current_state>>
      [] cont.kind = "utilization" ->
            <<[cpu |-> [total |-> res.data[1].limits.cpu,
                        current |-> Res1(o).data[1].resources.cpu_absolute],
               memory |-> [total |-> res.data[1].limits.memory,
                           current |-> Res1(o).data[1].resources.memory_bytes],
               disk |-> [total |-> res.data[1].limits.disk,
                         current |-> Res1(o).data[1].resources.disk_bytes]]>>
      [] cont.kind = "status" -> Chained(cont, "resolved", 0)
      [] OTHER -> <<>>

\* Any 2xx status accepted.
Refused_non2xx(cont, res) ==
    cont.kind = "status" /\ res.statusCode \notin 200..299

\* if (res.statusCode !== 200) ... return reject(new Error(error))
Refused(cont, res) == cont.kind = "status" /\ res.statusCode # 200

\* try { let res = await api.call(...); resolve(...) }
RespondOk(k) ==
    /\ calls[k].state = "pending"
    /\ \E res \in Responses(calls[k]) :
         LET o    == calls[k].op
             cont == ops[o].cont
             H    == [heap |-> heap, cursors |-> cursors]
             H2   == Constructed(cont, H, res, o)
             done == [calls EXCEPT ![k].state = "ok", ![k].res = res,
                                   ![k].seq = Answered + 1]
         IN  /\ calls' = IF cont.kind = "call"
                         THEN Append(done, Issued(cont.call, o,
                                                  heap[ops[o].this], <<>>))
                         ELSE done
             /\ heap' = H2.heap
             /\ cursors' = H2.cursors
             /\ ops' = IF cont.kind = "call"
                       THEN [ops EXCEPT ![o].cont = cont.then]
                       ELSE IF Refused(cont, res)
                       THEN [ops EXCEPT
                               ![o].promise = "rejected",
                               ![o].error = NewError(res.statusCode),
                               ![o].value = Chained(cont, "rejected",
                                                    NewError(res.statusCode))]
                       ELSE IF cont.settles
                       THEN [ops EXCEPT ![o].promise = "resolved",
                                        ![o].result = Resolved(cont, H, H2),
                                        ![o].value = Value(cont, o, res)]
                       ELSE ops

RespondErr_newError(k) ==
    /\ calls[k].state = "pending"
    /\ \E e \in {404, 500} :
         LET o == calls[k].op
         IN  /\ calls' = [calls EXCEPT ![k].state = "err", ![k].error = e,
                                       ![k].seq = Answered + 1]
             /\ ops' = IF ops[o].cont.settles
                       THEN [ops EXCEPT ![o].promise = "rejected", ![o].error = 500]
                       ELSE ops
             /\ UNCHANGED <<heap, cursors>>

\* catch (error) { reject(error) }
RespondErr(k) ==
    /\ calls[k].state = "pending"
    /\ \E e \in {404, 500} :
         LET o == calls[k].op
         IN  /\ calls' = [calls EXCEPT ![k].state = "err", ![k].error = e,
                                       ![k].seq = Answered + 1]
             /\ ops' = IF ops[o].cont.kind = "status"
                       THEN [ops EXCEPT
                               ![o].promise = "rejected", ![o].error = e,
                               ![o].value = Chained(ops[o].cont, "rejected", e)]
                       ELSE IF ops[o].cont.settles
                       THEN [ops EXCEPT ![o].promise = "rejected", ![o].error = e]
                       ELSE ops
             /\ UNCHANGED <<heap, cursors>>

\* ------------------------------------------- the update specification
\* One entity as a fetch left it: built by its constructor from a response,
\* with a pagination block (a list call) or without (a single fetch).
DetailsOptions ==
    {[name |-> v] : v \in Vals} \cup {[description |-> v] : v \in Vals}
    \cup {[name |-> v, user |-> v] : v \in Vals}

BuildOptions ==
    {[allocation |-> v] : v \in Vals}
    \cup {[limits |-> [memory |-> v, swap |-> v, disk |-> v, io |-> v, cpu |-> v]] : v \in Vals}

StartupOptions == {[startup |-> v] : v \in Vals} \cup {[environment |-> v] : v \in Vals}

InitUpdate ==
    \E cls \in {"User", "Node", "Location", "Server"},
       pag \in {NoPagination, RawPagination(1)} :
        LET H == Construct(cls, 0, EmptyStore, RawOf(cls, 1, 1), pag, 0)
        IN  /\ heap = H.heap
            /\ cursors = H.cursors
            /\ ops = <<>>
            /\ calls = <<>>

UserSetters(i) ==
    /\ heap[i].cls = "User"
    /\ \E v \in Vals :
        \/ User_setExternalId(i, v)
        \/ User_setUsername(i, v)
        \/ User_setEmail(i, v)
        \/ User_setFirstName(i, v)
        \/ User_setLastName(i, v)
        \/ User_setPassword(i, v)
        \/ User_setAdmin(i, v)
        \/ User_setLanguage(i, v)

LocationSetters(i) ==
    /\ heap[i].cls = "Location"
    /\ \E v \in Vals :
        \/ Location_setShortCode(i, v)
        \/ Location_setDescription(i, v)

NodeSetters(i) ==
    /\ heap[i].cls = "Node"
    /\ \E v \in Vals :
        \/ Node_setPublic(i, v)
        \/ Node_setName(i, v)
        \/ Node_setDescription(i, v)
        \/ Node_setLocation(i, v)
        \/ Node_setFQDN(i, v)
        \/ Node_setScheme(i, v)
        \/ Node_setBehindProxy(i, v)
        \/ Node_setMaintenanceMode(i, v)
        \/ Node_setUploadSize(i, v)
        \/ Node_setMemory(i, v)
        \/ Node_setMemoryOverAllocate(i, v)
        \/ Node_setDisk(i, v)
        \/ Node_setDiskOverAllocate(i, v)
        \/ Node_setDaemonPort(i, v)
        \/ Node_setDaemonSftpPort(i, v)
        \/ Node_setDaemonBase(i, v)

ServerSetters(i) ==
    /\ heap[i].cls = "Server"
    /\ \E v \in Vals :
        \/ Server_setName(i, v)
        \/ Server_setDescription(i, v)
        \/ Server_setUser(i, v)
        \/ Server_setMemory(i, v)
        \/ Server_setCPU(i, v)
        \/ Server_setDisk(i, v)
        \/ Server_setIO(i, v)
        \/ Server_setSwap(i, v)
        \/ Server_setDatabaseAmount(i, v)
        \/ Server_setAllocationAmount(i, v)
        \/ Server_setStartupCommand(i, v)
        \/ Server_setEgg(i, v)
        \/ Server_setPack(i, v)
        \/ Server_setImage(i, v)

ServerUpdates(i) ==
    /\ heap[i].cls = "Server"
    /\ \/ \E o \in DetailsOptions : Server_updateDetails(i, o)
       \/ \E o \in BuildOptions : Server_updateBuild(i, o)
       \/ \E o \in StartupOptions : Server_updateStartup(i, o)
       \/ \E o \in DetailsOptions : Server_updateServer(i, o)
       \/ \E o \in BuildOptions : Server_updateServerBuild(i, o)
       \/ \E o \in StartupOptions : Server_updateServerStartup(i, o)

NextUpdate ==
    \/ \E i \in 1..Len(heap) : UserSetters(i)
    \/ \E i \in 1..Len(heap) : LocationSetters(i)
    \/ \E i \in 1..Len(heap) : NodeSetters(i)
    \/ \E i \in 1..Len(heap) : ServerSetters(i)
    \/ \E i \in 1..Len(heap) : ServerUpdates(i)
    \/ \E k \in 1..Len(calls) : RespondOk(k)
    \/ \E k \in 1..Len(calls) : RespondErr(k)

SpecUpdate == InitUpdate /\ [][NextUpdate]_vars

\* ------------------------------------------------ the fetch specification
\* A node, a nest and a server are at hand, for the instance methods that
\* forward to a listing or a fetch with this.id.
InitList ==
    LET H1 == Construct("Node", 0, EmptyStore, RawOf("Node", 1, 1), NoPagination, 0)
        H2 == Construct("Nest", 0, H1, RawOf("Nest", 1, 1), NoPagination, 0)
        H3 == Construct("Server", 0, H2, RawOf("Server", 1, 1), NoPagination, 0)
    IN  /\ heap = H3.heap
        /\ cursors = H3.cursors
        /\ ops = <<>>
        /\ calls = <<>>

Instances(cls) == {i \in 1..Len(heap) : heap[i].cls = cls}

ListStatics ==
    /\ Len(ops) < MaxListOps
    /\ \/ \E page \in PageArgs :
            \/ User_getAll(Entry("User_getAll", page), page)
            \/ Node_getAll(Entry("Node_getAll", page), page)
            \/ Location_getAll(Entry("Location_getAll", page), page)
            \/ Server_getAll(Entry("Server_getAll", page), page)
            \/ Nest_getAll(Entry("Nest_getAll", page), page)
            \/ ClientServer_getAll(Entry("ClientServer_getAll", page), page)
            \/ \E node \in Vals :
                 NodeAllocation_getAll(Entry("NodeAllocation_getAll", page),
                                       node, page)
       \/ \E nest \in Vals : Egg_getAll(Entry("Egg_getAll", nest), nest)
       \/ \E server \in Vals :
            ServerDatabase_getAll(Entry("ServerDatabase_getAll", server), server)

ListFacades ==
    /\ Len(ops) < MaxListOps
    /\ \/ \E page \in PageArgs :
            \/ AdminClient_getUsers(page)
            \/ AdminClient_getNodes(page)
            \/ AdminClient_getLocations(page)
            \/ AdminClient_getServers(page)
            \/ AdminClient_getNests(page)
            \/ UserClient_getClientServers(page)
            \/ \E i \in Instances("Node") : Node_getAllocations(i, page)
       \/ \E i \in Instances("Nest") : Nest_getEggs(i)
       \/ \E i \in Instances("Server") : Server_databases(i)

FetchStatics ==
    /\ Len(ops) < MaxListOps
    /\ \E id \in Vals :
         \/ User_getById(Entry("User_getById", id), id)
         \/ User_getByExternalId(Entry("User_getByExternalId", id), id)
         \/ Node_getById(Entry("Node_getById", id), id)
         \/ Location_getById(Entry("Location_getById", id), id)
         \/ Server_getById(Entry("Server_getById", id), id)
         \/ Server_getByExternalId(Entry("Server_getByExternalId", id), id)
         \/ Nest_getById(Entry("Nest_getById", id), id)
         \/ ClientServer_getById(Entry("ClientServer_getById", id), id)
         \/ \E nest \in Vals : Egg_getById(Entry("Egg_getById", id), nest, id)
         \/ \E server \in Vals :
              ServerDatabase_getById(Entry("ServerDatabase_getById", id),
                                     server, id)

FetchFacades ==
    /\ Len(ops) < MaxListOps
    /\ \E id \in Vals :
         \/ AdminClient_getUser(id)
         \/ AdminClient_getNode(id)
         \/ AdminClient_getLocation(id)
         \/ AdminClient_getServer(id)
         \/ AdminClient_getNest(id)
         \/ UserClient_getClientServer(id)
         \/ \E nest \in Vals : AdminClient_getEgg(nest, id)
         \/ \E i \in Instances("Nest") : Nest_getEgg(i, id)
         \/ \E i \in Instances("Server") : Server_getDatabase(i, id)

CreateStatics ==
    /\ Len(ops) < MaxListOps
    /\ \/ \E options \in NewUserOptions :
            User_create(Entry("User_create", options), options)
       \/ \E options \in NewNodeOptions :
            Node_create(Entry("Node_create", options), options)
       \/ \E options \in NewLocationOptions :
            Location_create(Entry("Location_create", options), options)
       \/ \E options \in NewServerOptions :
            Server_create(Entry("Server_create", options), options)

NextList ==
    \/ ListStatics
    \/ CreateStatics
    \/ ListFacades
    \/ FetchStatics
    \/ FetchFacades
    \/ \E k \in 1..Len(calls) : RespondOk(k)
    \/ \E k \in 1..Len(calls) : RespondErr(k)

SpecList == InitList /\ [][NextList]_vars

\* -------------------------------------------- the instance specification
\* One entity as a fetch left it, of any class with instance methods other
\* than the updates; a NodeAllocation belongs to node 1.
InitInstance ==
    \E cls \in {"User", "Node", "Location", "Server", "NodeAllocation",
                "ServerDatabase", "ClientServer"},
       r \in Vals,
       pag \in {NoPagination, RawPagination(1)} :
        LET H == Construct(cls, 1, EmptyStore, RawOf(cls, 1, r), pag, 0)
        IN  /\ heap = H.heap
            /\ cursors = H.cursors
            /\ ops = <<>>
            /\ calls = <<>>

Deletes(i) ==
    \/ heap[i].cls = "User" /\ User_delete(i)
    \/ heap[i].cls = "Node" /\ Node_delete(i)
    \/ heap[i].cls = "Location" /\ Location_delete(i)
    \/ heap[i].cls = "Server" /\
         \E force \in {"true", "false", "undefined"} : Server_delete(i, force)
    \/ heap[i].cls = "NodeAllocation" /\ NodeAllocation_delete(i)
    \/ heap[i].cls = "ServerDatabase" /\ ServerDatabase_delete(i)

ServerActions(i) ==
    /\ heap[i].cls = "Server"
    /\ \/ Server_isSuspended(i)
       \/ Server_suspend(i)
       \/ Server_unsuspend(i)
       \/ Server_reinstall(i)
       \/ Server_rebuild(i)
       \/ \E v \in Vals : Server_createDatabase(i, v, v, v)

NodeActions(i) ==
    /\ heap[i].cls = "Node"
    /\ \E v \in Vals : Node_createAllocations(i, v, v, v)

DatabaseActions(i) ==
    /\ heap[i].cls = "ServerDatabase"
    /\ ServerDatabase_resetPassword(i)

ClientServerActions(i) ==
    /\ heap[i].cls = "ClientServer"
    /\ \/ ClientServer_resourceUtilization(i)
       \/ ClientServer_powerState(i)
       \/ \E signal \in {"start", "stop", "restart", "kill"} :
            ClientServer_powerAction(i, signal)
       \/ ClientServer_start(i)
       \/ ClientServer_stop(i)
       \/ ClientServer_restart(i)
       \/ ClientServer_kill(i)
       \/ ClientServer_databases(i)
       \/ ClientServer_allocations(i)
       \/ \E command \in Vals : ClientServer_sendCommand(i, command)

NextInstance ==
    \/ \E i \in 1..Len(heap) : Deletes(i)
    \/ \E i \in 1..Len(heap) : ServerActions(i)
    \/ \E i \in 1..Len(heap) : NodeActions(i)
    \/ \E i \in 1..Len(heap) : DatabaseActions(i)
    \/ \E i \in 1..Len(heap) : ClientServerActions(i)
    \/ \E k \in 1..Len(calls) : RespondOk(k)
    \/ \E k \in 1..Len(calls) : RespondErr(k)

SpecInstance == InitInstance /\ [][NextInstance]_vars

\* ---------------------------------------------- the client specification
\* Nothing is constructed yet; the caller constructs facades, tests the
\* connection and lists through a facade.
InitClient ==
    /\ heap = <<>>
    /\ cursors = <<>>
    /\ ops = <<>>
    /\ calls = <<>>

NextClient ==
    \/ \E url \in Vals, apiKey \in Vals : AdminClient_constructor(url, apiKey)
    \/ \E url \in Vals, apiKey \in Vals : UserClient_constructor(url, apiKey)
    \/ \E i \in Instances("AdminClient") : AdminClient_testConnection(i)
    \/ \E i \in Instances("UserClient") : UserClient_testConnection(i)
    \/ \E i \in Instances("AdminClient"), page \in PageArgs :
            AdminClient_getUsers(page)
    \/ \E i \in Instances("UserClient"), page \in PageArgs :
            UserClient_getClientServers(page)
    \/ \E k \in 1..Len(calls) : RespondOk(k)
    \/ \E k \in 1..Len(calls) : RespondErr(k)

SpecClient == InitClient /\ [][NextClient]_vars

\* ---------------------------------------------- the cursor specification
\* The update specification with the four creates, each with one options
\* object.
AllOnes(options) == \A f \in DOMAIN options : options[f] = 1

Creates ==
    \/ \E options \in {o \in NewUserOptions : AllOnes(o)} :
            User_create(Entry("User_create", options), options)
    \/ \E options \in {o \in NewNodeOptions : AllOnes(o)} :
            Node_create(Entry("Node_create", options), options)
    \/ \E options \in {o \in NewLocationOptions : AllOnes(o)} :
            Location_create(Entry("Location_create", options), options)
    \/ \E options \in {o \in NewServerOptions : "deploy" \notin DOMAIN o /\ AllOnes(o)} :
            Server_create(Entry("Server_create", options), options)

NextCursor ==
    \/ NextUpdate
    \/ Creates

SpecCursor == InitUpdate /\ [][NextCursor]_vars

\* ====================================================================
\* Properties
\* ====================================================================
\* The local field (a path into the entity record) each single-field setter
\* is about.
SetterTarget ==
    [User_setExternalId |-> <<"externalId">>, User_setUsername |-> <<"username">>,
     User_setEmail |-> <<"email">>, User_setFirstName |-> <<"firstName">>,
     User_setLastName |-> <<"lastName">>, User_setPassword |-> <<"password">>,
     User_setAdmin |-> <<"rootAdmin">>, User_setLanguage |-> <<"language">>,
     Location_setShortCode |-> <<"shortCode">>,
     Location_setDescription |-> <<"description">>,
     Node_setPublic |-> <<"public">>, Node_setName |-> <<"name">>,
     Node_setDescription |-> <<"description">>,
     Node_setLocation |-> <<"locationId">>, Node_setFQDN |-> <<"fqdn">>,
     Node_setScheme |-> <<"scheme">>, Node_setBehindProxy |-> <<"behindProxy">>,
     Node_setMaintenanceMode |-> <<"maintenanceMode">>,
     Node_setUploadSize |-> <<"uploadSize">>, Node_setMemory |-> <<"memory">>,
     Node_setMemoryOverAllocate |-> <<"memoryOverAllocate">>,
     Node_setDisk |-> <<"disk">>,
     Node_setDiskOverAllocate |-> <<"diskOverAllocate">>,
     Node_setDaemonPort |-> <<"daemonListen">>,
     Node_setDaemonSftpPort |-> <<"daemonSftp">>,
     Node_setDaemonBase |-> <<"daemonBase">>,
     Server_setName |-> <<"name">>, Server_setDescription |-> <<"description">>,
     Server_setUser |-> <<"user">>, Server_setMemory |-> <<"limits", "memory">>,
     Server_setCPU |-> <<"limits", "cpu">>, Server_setDisk |-> <<"limits", "disk">>,
     Server_setIO |-> <<"limits", "io">>, Server_setSwap |-> <<"limits", "swap">>,
     Server_setDatabaseAmount |-> <<"featureLimits", "databases">>,
     Server_setAllocationAmount |-> <<"featureLimits", "allocations">>,
     Server_setStartupCommand |-> <<"container", "startupCommand">>,
     Server_setEgg |-> <<"egg">>, Server_setPack |-> <<"pack">>,
     Server_setImage |-> <<"container", "image">>]

SetterNames == DOMAIN SetterTarget

HasField(e, path) ==
    /\ path[1] \in DOMAIN e
    /\ Len(path) = 2 => path[2] \in DOMAIN e[path[1]]

Field(e, path) == IF Len(path) = 1 THEN e[path[1]] ELSE e[path[1]][path[2]]

Holds(e, path, v) == HasField(e, path) /\ Field(e, path) = v

\* Call k is the latest call of a setter of its field on its instance.
LatestOnField(k) ==
    \A k2 \in (k + 1)..Len(calls) :
        ~ /\ ops[calls[k2].op].name \in SetterNames
          /\ ops[calls[k2].op].this = ops[calls[k].op].this
          /\ SetterTarget[ops[calls[k2].op].name] = SetterTarget[ops[calls[k].op].name]

\* The setter's field holds its argument when the call is issued, and on the
\* instance for as long as no later setter of that field is invoked on it:
\* while the call is pending, after it resolved, after it was rejected.
OptimisticFor(names) ==
    \A k \in 1..Len(calls) :
        LET o == ops[calls[k].op]
        IN  o.name \in names =>
              /\ Holds(calls[k].atIssue, SetterTarget[o.name], o.arg)
              /\ LatestOnField(k) => Holds(heap[o.this], SetterTarget[o.name], o.arg)

\* C1 as stated: every single-field setter of User, Node, Location and Server
\* has assigned its field when the transport call is issued, and the field
\* keeps the value after the call is rejected.
C1_EverySetterAssigns == OptimisticFor(SetterNames)

\* C1, amended: every single-field setter except User.setPassword (which
\* assigns nothing locally) has assigned its field when the transport call is
\* issued, and the field keeps the value after the call is rejected.
C1_SetterAssignsBeforeCall == OptimisticFor(SetterNames \ {"User_setPassword"})

\* A setter's call was rejected and the instance holds the new value, which
\* differs from the hydrated one.
C1_Witness ==
    \E k \in 1..Len(calls) :
        LET o == ops[calls[k].op]
        IN  /\ o.name \in SetterNames \ {"User_setPassword"}
            /\ calls[k].state = "err"
            /\ o.promise = "rejected"
            /\ o.arg = 2
            /\ Holds(heap[o.this], SetterTarget[o.name], 2)

\* The update operations: the single-field setters and the update methods.
UpdateNames ==
    SetterNames \cup {"Server_updateDetails", "Server_updateBuild",
                      "Server_updateStartup", "Server_updateServer",
                      "Server_updateServerBuild", "Server_updateServerStartup"}

Hydrated(cls, node, data) ==
    CASE cls = "User" -> UserModel(data)
      [] cls = "Nest" -> NestModel(data)
      [] cls = "Egg" -> EggModel(data)
      [] cls = "NodeAllocation" -> NodeAllocationModel(data, node)
      [] cls = "ServerDatabase" -> ServerDatabaseModel(data)
      [] cls = "ClientServer" -> ClientServerModel(data)
      [] cls = "Node" -> NodeModel(data)
      [] cls = "Location" -> LocationModel(data)
      [] cls = "Server" -> ServerModel(data)

BuiltFrom(e, cls, node, data) ==
    LET m == Hydrated(cls, node, data)
    IN  /\ DOMAIN e = DOMAIN m \cup {"pagination", "by", "pagArg"}
        /\ \A f \in DOMAIN m : e[f] = m[f]

\* No method has been invoked on instance r.
Untouched(r) == \A j \in 1..Len(ops) : ops[j].this # r

\* C2 as stated: when the transport call of an update operation has
\* succeeded, the returned promise is resolved with a new instance, other
\* than the one the operation was invoked on, built from the response.
C2_UpdateResolvesToNewEntity ==
    \A k \in 1..Len(calls) :
        LET o == ops[calls[k].op]
        IN  (o.name \in UpdateNames /\ calls[k].state = "ok") =>
              /\ o.promise = "resolved"
              /\ Len(o.result) = 1
              /\ o.result[1] # o.this
              /\ Untouched(o.result[1]) =>
                    BuiltFrom(heap[o.result[1]], heap[o.this].cls, 0,
                              calls[k].res.data[1])
              /\ o.name \in SetterNames \ {"User_setPassword"} /\ LatestOnField(k) =>
                    Holds(heap[o.this], SetterTarget[o.name], o.arg)

\* The endpoint's base subset, by the path the partial update is sent to.
BaseKeys(tpl) ==
    CASE tpl = "/application/users/{id}" ->
            {"username", "email", "first_name", "last_name"}
      [] tpl = "/application/nodes/{id}" ->
            {"name", "location_id", "fqdn", "scheme", "memory",
             "memory_overallocate", "disk", "disk_overallocate", "daemon_sftp",
             "daemon_listen"}
      [] tpl = "/application/locations" -> {"short", "long"}
      [] tpl = "/application/servers/{id}/details" -> {"name", "user"}
      [] tpl = "/application/servers/{id}/build" ->
            {"allocation", "limits", "feature_limits"}
      [] tpl = "/application/servers/{id}/startup" -> {"startup", "egg", "image"}

\* The local field a base key of the request is read from.
LocalOf ==
    [username |-> <<"username">>, email |-> <<"email">>,
     first_name |-> <<"firstName">>, last_name |-> <<"lastName">>,
     name |-> <<"name">>, location_id |-> <<"locationId">>, fqdn |-> <<"fqdn">>,
     scheme |-> <<"scheme">>, memory |-> <<"memory">>,
     memory_overallocate |-> <<"memoryOverAllocate">>, disk |-> <<"disk">>,
     disk_overallocate |-> <<"diskOverAllocate">>,
     daemon_sftp |-> <<"daemonSftp">>, daemon_listen |-> <<"daemonListen">>,
     short |-> <<"shortCode">>, long |-> <<"description">>, user |-> <<"user">>,
     allocation |-> <<"allocation">>, limits |-> <<"limits">>,
     feature_limits |-> <<"featureLimits">>,
     startup |-> <<"container", "startupCommand">>, egg |-> <<"egg">>,
     image |-> <<"container", "image">>]

\* The operations that send a partial-update body (base overlaid by changes).
PartialUpdateNames ==
    SetterNames \cup {"Server_updateDetails", "Server_updateBuild",
                      "Server_updateStartup"}

\* C3: a partial-update body has exactly the endpoint's base keys and the
\* keys of changes; a key of changes carries the value of changes, every
\* other key the entity's local value of its field as the call is made.
C3_BodyIsBaseOverlaidByChanges ==
    \A k \in 1..Len(calls) :
        LET c == calls[k]
        IN  ops[c.op].name \in PartialUpdateNames =>
              /\ DOMAIN c.body = BaseKeys(c.tpl) \cup DOMAIN c.changes
              /\ \A key \in DOMAIN c.changes : c.body[key] = c.changes[key]
              /\ \A key \in BaseKeys(c.tpl) \ DOMAIN c.changes :
                    c.body[key] = Field(c.atIssue, LocalOf[key])

\* updateDetails was called with a name other than the local one: the key
\* collides, and the body has a base key the changes do not mention.
C3_Witness ==
    \E k \in 1..Len(calls) :
        /\ ops[calls[k].op].name = "Server_updateDetails"
        /\ DOMAIN calls[k].changes = {"name"}
        /\ calls[k].changes.name # calls[k].atIssue.name
        /\ calls[k].body.name = calls[k].changes.name
        /\ calls[k].body.user = calls[k].atIssue.user

\* The key and sub-key of the nested group each single-limit setter sends.
NestedOverlay ==
    [Server_setMemory |-> <<"limits", "memory">>,
     Server_setCPU |-> <<"limits", "cpu">>,
     Server_setDisk |-> <<"limits", "disk">>,
     Server_setIO |-> <<"limits", "io">>,
     Server_setSwap |-> <<"limits", "swap">>,
     Server_setDatabaseAmount |-> <<"feature_limits", "databases">>,
     Server_setAllocationAmount |-> <<"feature_limits", "allocations">>]

\* C4: the body of a single-limit setter has, under limits (feature_limits),
\* exactly the one targeted key with the new value: no sibling of the
\* entity's limits (featureLimits) is sent.
C4_NestedGroupHasOnlyTheTarget ==
    \A k \in 1..Len(calls) :
        LET o == ops[calls[k].op]
        IN  o.name \in DOMAIN NestedOverlay =>
              LET group == NestedOverlay[o.name][1]
                  key   == NestedOverlay[o.name][2]
              IN  /\ group \in DOMAIN calls[k].body
                  /\ DOMAIN calls[k].body[group] = {key}
                  /\ calls[k].body[group][key] = o.arg

\* setCPU(2) on a server whose limits hold five fields, all of them 1.
C4_Witness ==
    \E k \in 1..Len(calls) :
        /\ ops[calls[k].op].name = "Server_setCPU"
        /\ ops[calls[k].op].arg = 2
        /\ DOMAIN calls[k].atIssue.limits = {"memory", "swap", "disk", "io", "cpu"}
        /\ calls[k].atIssue.limits.memory = 1
        /\ calls[k].body.limits = [cpu |-> 2]

\* The endpoint of each Server single-field setter's field group.
GroupEndpoint ==
    [Server_setName |-> "/application/servers/{id}/details",
     Server_setDescription |-> "/application/servers/{id}/details",
     Server_setUser |-> "/application/servers/{id}/details",
     Server_setMemory |-> "/application/servers/{id}/build",
     Server_setCPU |-> "/application/servers/{id}/build",
     Server_setDisk |-> "/application/servers/{id}/build",
     Server_setIO |-> "/application/servers/{id}/build",
     Server_setSwap |-> "/application/servers/{id}/build",
     Server_setDatabaseAmount |-> "/application/servers/{id}/build",
     Server_setAllocationAmount |-> "/application/servers/{id}/build",
     Server_setStartupCommand |-> "/application/servers/{id}/startup",
     Server_setEgg |-> "/application/servers/{id}/startup",
     Server_setPack |-> "/application/servers/{id}/startup",
     Server_setImage |-> "/application/servers/{id}/startup"]

\* C5 as stated: every Server single-field setter PATCHes the endpoint of
\* its field group, for its own id, with that group's base keys in the body.
C5_SetterPatchesItsGroupEndpoint ==
    \A k \in 1..Len(calls) :
        LET o == ops[calls[k].op]
        IN  o.name \in DOMAIN GroupEndpoint =>
              /\ calls[k].method = "PATCH"
              /\ calls[k].tpl = GroupEndpoint[o.name]
              /\ calls[k].args = <<calls[k].atIssue.id>>
              /\ BaseKeys(GroupEndpoint[o.name]) \subseteq DOMAIN calls[k].body

\* ------------------------------------------------- listing and fetching
\* The listing methods that take a page, the class they produce and the
\* collection path their request names.
PagedListPath ==
    [User_getAll |-> "/application/users",
     Node_getAll |-> "/application/nodes",
     Location_getAll |-> "/application/locations",
     Server_getAll |-> "/application/servers",
     Nest_getAll |-> "/application/nests",
     ClientServer_getAll |-> "/client",
     NodeAllocation_getAll |-> "/application/nodes/{node}/allocations"]

UnpagedListPath ==
    [Egg_getAll |-> "/application/nests/{nest}/eggs",
     ServerDatabase_getAll |-> "/application/servers/{server}/databases"]

PagedListNames == DOMAIN PagedListPath

UnpagedListNames == DOMAIN UnpagedListPath

ListNames == PagedListNames \cup UnpagedListNames

ListClass ==
    [User_getAll |-> "User", Node_getAll |-> "Node",
     Location_getAll |-> "Location", Server_getAll |-> "Server",
     Nest_getAll |-> "Nest", ClientServer_getAll |-> "ClientServer",
     NodeAllocation_getAll |-> "NodeAllocation", Egg_getAll |-> "Egg",
     ServerDatabase_getAll |-> "ServerDatabase"]

FetchNames ==
    {"User_getById", "User_getByExternalId", "Node_getById", "Location_getById",
     "Server_getById", "Server_getByExternalId", "Nest_getById", "Egg_getById",
     "ServerDatabase_getById", "ClientServer_getById"}

FacadeNames ==
    {"AdminClient_getUsers", "AdminClient_getNodes", "AdminClient_getLocations",
     "AdminClient_getServers", "AdminClient_getNests",
     "UserClient_getClientServers", "Node_getAllocations"}

PageQuery(path) ==
    CASE path = "/application/users" -> "/application/users?page={page}"
      [] path = "/application/nodes" -> "/application/nodes?page={page}"
      [] path = "/application/locations" -> "/application/locations?page={page}"
      [] path = "/application/servers" -> "/application/servers?page={page}"
      [] path = "/application/nests" -> "/application/nests?page={page}"
      [] path = "/client" -> "/client?page={page}"
      [] path = "/application/nodes/{node}/allocations" ->
            "/application/nodes/{node}/allocations?page={page}"
      [] path = "/application/nests/{nest}/eggs" ->
            "/application/nests/{nest}/eggs?page={page}"
      [] path = "/application/servers/{server}/databases" ->
            "/application/servers/{server}/databases?page={page}"

\* The page a request asks for: the last parameter of a ?page= path.
PageOf(c) == c.args[Len(c.args)]

IsPositive(page) == page.kind = "number" /\ page.n > 0

\* C6: every paged listing operation, the static getAll of User, Node,
\* Location, Server, Nest, ClientServer and NodeAllocation called directly or
\* through a facade, requests page N when the caller passed a positive
\* integer N, and page 1 when the caller passed undefined, 0 or another
\* falsy value.
C6_FalsyPageRequestsPageOne ==
    \A k \in 1..Len(calls) :
        LET o == ops[calls[k].op]
        IN  o.name \in PagedListNames =>
              /\ calls[k].tpl = PageQuery(PagedListPath[o.name])
              /\ PageOf(calls[k]) =
                    IF IsPositive(o.entry.arg) THEN o.entry.arg.n ELSE 1

\* A facade that passes the page through was called with a falsy page and
\* the request names page 1.
C6_Witness ==
    \E k \in 1..Len(calls) :
        LET o == ops[calls[k].op]
        IN  /\ o.entry.name = "AdminClient_getNodes"
            /\ o.name = "Node_getAll"
            /\ ~IsPositive(o.entry.arg)
            /\ PageOf(calls[k]) = 1

\* The four values of a cursor are those of the raw block.
CursorOf(e, raw) ==
    /\ e.pagination # 0
    /\ cursors[e.pagination].currentPage = raw.current_page
    /\ cursors[e.pagination].totalPages = raw.total_pages
    /\ cursors[e.pagination].totalItems = raw.total
    /\ cursors[e.pagination].itemsPerPage = raw.per_page

\* The owning node a listing names (only NodeAllocation has one).
NodeOf(name, c) == IF name = "NodeAllocation_getAll" THEN c.args[1] ELSE 0

\* The result of listing call k is the response's data, element by element.
MapsInOrder(k) ==
    LET o == ops[calls[k].op]
        res == calls[k].res
    IN  /\ Len(o.result) = Len(res.data)
        /\ \A j \in 1..Len(res.data) :
              BuiltFrom(heap[o.result[j]], ListClass[o.name],
                        NodeOf(o.name, calls[k]), res.data[j])

ListingsDone ==
    {k \in 1..Len(calls) :
        /\ calls[k].state = "ok"
        /\ ops[calls[k].op].name \in ListNames
        /\ ops[calls[k].op].promise = "resolved"}

\* C7 (as stated): getAll resolves to a sequence of the length of the
\* response's data, its i-th entity built from the i-th element, and every
\* entity carries pagination values equal to the response's pagination block.
C7_ListInOrderWithPagination ==
    \A k \in ListingsDone :
        /\ MapsInOrder(k)
        /\ calls[k].res.pagination.present =>
              \A j \in 1..Len(ops[calls[k].op].result) :
                  CursorOf(heap[ops[calls[k].op].result[j]],
                           calls[k].res.pagination)

\* C7 (amended): order and length as stated for every getAll; the entities
\* carry the block's pagination values when the listing is one of the seven
\* that take a page, and none when it is Egg.getAll or ServerDatabase.getAll.
C7_ListInOrderPagedCarryPagination ==
    \A k \in ListingsDone :
        LET o == ops[calls[k].op]
        IN  /\ MapsInOrder(k)
            /\ \A j \in 1..Len(o.result) :
                  IF o.name \in PagedListNames /\ calls[k].res.pagination.present
                  THEN CursorOf(heap[o.result[j]], calls[k].res.pagination)
                  ELSE heap[o.result[j]].pagination = 0

\* A paged listing resolved a response of two elements that are not in id
\* order, with a pagination block.
C7_Witness ==
    \E k \in ListingsDone :
        LET o == ops[calls[k].op]
        IN  /\ o.name = "ClientServer_getAll"
            /\ calls[k].res.pagination.present
            /\ Len(o.result) = 2
            /\ heap[o.result[1]].identifier = 2
            /\ heap[o.result[2]].identifier = 1
            /\ CursorOf(heap[o.result[2]], calls[k].res.pagination)

ListPath == PagedListPath @@ UnpagedListPath

\* C8 (as stated): every getAll, Egg's and ServerDatabase's included, GETs
\* its path with ?page=N and attaches the response's pagination cursor to
\* each entity it returns.
C8_EveryListGetsPageAndAttachesCursor ==
    \A k \in 1..Len(calls) :
        LET o == ops[calls[k].op]
        IN  o.name \in ListNames =>
              /\ calls[k].method = "GET"
              /\ calls[k].tpl = PageQuery(ListPath[o.name])
              /\ k \in ListingsDone /\ calls[k].res.pagination.present =>
                    \A j \in 1..Len(o.result) :
                        CursorOf(heap[o.result[j]], calls[k].res.pagination)

\* C8 (amended): the seven listings that take a page GET path?page=N and
\* attach a cursor to each entity; Egg.getAll and ServerDatabase.getAll GET
\* the bare path, named by the parent id alone, and attach no cursor.
C8_PagedListsGetPageOthersBarePath ==
    \A k \in 1..Len(calls) :
        LET o == ops[calls[k].op]
        IN  /\ o.name \in PagedListNames =>
              /\ calls[k].method = "GET"
              /\ calls[k].tpl = PageQuery(PagedListPath[o.name])
              /\ PageOf(calls[k]) >= 1
              /\ k \in ListingsDone /\ calls[k].res.pagination.present =>
                    \A j \in 1..Len(o.result) :
                        CursorOf(heap[o.result[j]], calls[k].res.pagination)
            /\ o.name \in UnpagedListNames =>
              /\ calls[k].method = "GET"
              /\ calls[k].tpl = UnpagedListPath[o.name]
              /\ calls[k].args = <<o.arg>>
              /\ k \in ListingsDone =>
                    \A j \in 1..Len(o.result) : heap[o.result[j]].pagination = 0

\* Egg.getAll resolved a non-empty response that had a pagination block.
C8_Witness ==
    \E k \in ListingsDone :
        LET o == ops[calls[k].op]
        IN  /\ o.name = "Egg_getAll"
            /\ calls[k].tpl = "/application/nests/{nest}/eggs"
            /\ calls[k].res.pagination.present
            /\ Len(o.result) >= 1
            /\ heap[o.result[1]].pagination = 0

\* The cursors invocation o constructed.
CursorsBy(o) == {c \in 1..Len(cursors) : cursors[c].by = o}

PagedListingsWithBlock ==
    {k \in ListingsDone :
        /\ ops[calls[k].op].name \in PagedListNames
        /\ calls[k].res.pagination.present
        /\ Len(calls[k].res.data) >= 1}

\* C9 (as stated): a listing call constructs exactly one cursor and every
\* entity it produces refers to that one object.
C9_OneCursorSharedByReference ==
    \A k \in PagedListingsWithBlock :
        LET o == ops[calls[k].op]
        IN  /\ Cardinality(CursorsBy(calls[k].op)) = 1
            /\ \A j \in 1..Len(o.result) :
                  heap[o.result[j]].pagination \in CursorsBy(calls[k].op)

\* C9 (amended): a listing call constructs one cursor per entity; the
\* entities refer to pairwise distinct cursor objects, each holding the
\* values of the response's one block.
C9_OneCursorPerEntityEqualValues ==
    \A k \in PagedListingsWithBlock :
        LET o == ops[calls[k].op]
        IN  /\ Cardinality(CursorsBy(calls[k].op)) = Len(o.result)
            /\ \A j \in 1..Len(o.result) :
                  /\ heap[o.result[j]].pagination \in CursorsBy(calls[k].op)
                  /\ CursorOf(heap[o.result[j]], calls[k].res.pagination)
            /\ \A j1, j2 \in 1..Len(o.result) :
                  j1 # j2 =>
                    heap[o.result[j1]].pagination # heap[o.result[j2]].pagination

\* A listing produced two entities: two cursor objects, equal in value.
C9_Witness ==
    \E k \in PagedListingsWithBlock :
        LET o == ops[calls[k].op]
        IN  /\ o.name = "Server_getAll"
            /\ Len(o.result) >= 2
            /\ heap[o.result[1]].pagination # heap[o.result[2]].pagination
            /\ [cursors[heap[o.result[1]].pagination] EXCEPT !.by = 0]
                 = [cursors[heap[o.result[2]].pagination] EXCEPT !.by = 0]

\* C10: an entity has a pagination cursor exactly when its constructor was
\* passed a truthy raw pagination block; only the listings pass one, so an
\* entity produced by getById or getByExternalId has none, whatever the
\* response held.
C10_CursorIffBuiltWithBlock ==
    \A r \in 1..Len(heap) :
        /\ heap[r].pagination # 0 <=> heap[r].pagArg
        /\ heap[r].pagination # 0 => heap[r].pagination \in 1..Len(cursors)
        /\ heap[r].by # 0 =>
              /\ heap[r].pagArg => ops[heap[r].by].name \in PagedListNames
              /\ ops[heap[r].by].name \in FetchNames => heap[r].pagination = 0

\* A single-entity fetch resolved a response that held a pagination block.
C10_Witness ==
    \E k \in 1..Len(calls) :
        LET o == ops[calls[k].op]
        IN  /\ o.name = "Server_getByExternalId"
            /\ calls[k].state = "ok"
            /\ calls[k].res.pagination.present
            /\ Len(o.result) = 1
            /\ heap[o.result[1]].pagination = 0

\* ------------------------------------------------------- error handling
CreateNames == {"User_create", "Node_create", "Location_create", "Server_create"}

\* The transport calls invocation o has issued.
CallsOf(o) == {k \in 1..Len(calls) : calls[k].op = o}

\* The objects invocation o has constructed.
BuiltBy(o) == {r \in 1..Len(heap) : heap[r].by = o}

\* C11: a getById, getByExternalId, getAll or create issues exactly one
\* transport call; when the transport rejects it, the operation's promise is
\* rejected with that same error and no entity (and no cursor) is constructed.
C11_RejectionPropagatesOnce ==
    \A o \in 1..Len(ops) :
        ops[o].name \in FetchNames \cup ListNames \cup CreateNames =>
          /\ Cardinality(CallsOf(o)) = 1
          /\ \A k \in CallsOf(o) :
                calls[k].state = "err" =>
                  /\ ops[o].promise = "rejected"
                  /\ ops[o].error = calls[k].error
                  /\ ops[o].result = <<>>
                  /\ BuiltBy(o) = {}
                  /\ CursorsBy(o) = {}

\* The transport rejected a getById with status 404.
C11_Witness ==
    \E o \in 1..Len(ops) :
        /\ ops[o].name = "User_getById"
        /\ ops[o].promise = "rejected"
        /\ ops[o].error = 404
        /\ \E k \in CallsOf(o) : calls[k].error = 404

\* ------------------------------------------------------------ settling
\* The transport is done with invocation o: a call of it has failed, or
\* every call it has to make has succeeded.
Failed(o) == {k \in CallsOf(o) : calls[k].state = "err"}

Succeeded(o) ==
    /\ CallsOf(o) # {}
    /\ ops[o].cont.kind # "call"
    /\ \A k \in CallsOf(o) : calls[k].state = "ok"

\* C12: once the transport call of a public operation has completed, the
\* promise handed to the caller is settled: resolved if the call succeeded,
\* rejected with the transport's error if it failed.  The code after the
\* await runs in the step in which the call completes and nothing settles a
\* promise later, so a promise that is pending in such a state stays pending
\* forever.
C12_PromiseSettlesWithTransport ==
    \A o \in 1..Len(ops) :
        /\ Succeeded(o) => ops[o].promise = "resolved"
        /\ \A k \in Failed(o) :
              /\ ops[o].promise = "rejected"
              /\ ops[o].error = calls[k].error

\* ------------------------------------------------- methods and paths
\* The paths that name one instance by its id.
InstancePaths ==
    {"/application/users/{id}", "/application/nodes/{id}",
     "/application/locations/{id}", "/application/servers/{id}/details",
     "/application/servers/{id}/build", "/application/servers/{id}/startup"}

\* C13: every update operation, single-field setter or update method of
\* User, Node, Location and Server, sends PATCH to a path that names the
\* instance's own id, never POST to the collection path.
C13_UpdatePatchesOwnId ==
    \A k \in 1..Len(calls) :
        LET o == ops[calls[k].op]
        IN  o.name \in UpdateNames =>
              /\ calls[k].method = "PATCH"
              /\ calls[k].tpl \in InstancePaths
              /\ calls[k].args = <<calls[k].atIssue.id>>

DeletePaths ==
    [User_delete |-> {"/application/users/{id}"},
     Node_delete |-> {"/application/nodes/{id}"},
     Location_delete |-> {"/application/locations/{id}"},
     Server_delete |-> {"/application/servers/{id}",
                        "/application/servers/{id}/force"},
     NodeAllocation_delete |-> {"/application/nodes/{node}/allocations/{id}"},
     ServerDatabase_delete |->
        {"/application/servers/{server}/databases/{id}"}]

DeleteNames == DOMAIN DeletePaths

\* C14: every delete of User, Node, Location, Server, NodeAllocation and
\* ServerDatabase issues exactly one transport call, with method DELETE, to
\* a path that ends with the instance's id (or id/force).
C14_DeleteSendsOneDelete ==
    \A o \in 1..Len(ops) :
        ops[o].name \in DeleteNames =>
          /\ Cardinality(CallsOf(o)) = 1
          /\ \A k \in CallsOf(o) :
                /\ calls[k].method = "DELETE"
                /\ calls[k].tpl \in DeletePaths[ops[o].name]
                /\ calls[k].args[Len(calls[k].args)] = calls[k].atIssue.id

\* The request of Server.delete(force) and what it resolves with.
ServerDeleteRequest ==
    \A o \in 1..Len(ops) :
        ops[o].name = "Server_delete" =>
          /\ \A k \in CallsOf(o) :
                /\ calls[k].method = "DELETE"
                /\ calls[k].tpl = IF ops[o].arg = "true"
                                  THEN "/application/servers/{id}/force"
                                  ELSE "/application/servers/{id}"
                /\ calls[k].args = <<calls[k].atIssue.id>>
                /\ calls[k].state = "ok" => ops[o].promise = "resolved"
          /\ ops[o].result = <<>>
          /\ ops[o].value = <<>>

\* A step of Server.delete: its invocation or the completion of its call.
ServerDeleteStep(o) ==
    /\ o \in 1..Len(ops')
    /\ ops'[o].name = "Server_delete"
    /\ \/ o > Len(ops)
       \/ \E k \in CallsOf(o) : calls'[k].state # calls[k].state

\* C15: Server.delete(force) requests /application/servers/{id}/force when
\* force is true and /application/servers/{id} when it is false or omitted,
\* resolves with no value, and no step of it, invocation, success or
\* failure, changes a field of the instance.
C15_ServerDeleteForceAndFrame ==
    /\ []ServerDeleteRequest
    /\ [][\A o \in 1..Len(ops) + 1 :
             ServerDeleteStep(o) => heap'[ops'[o].this] = heap[ops'[o].this]]_vars

\* A forced delete resolved and an unforced delete of the same server is
\* on its way to the plain path.
C15_Witness ==
    \E o1, o2 \in 1..Len(ops) :
        /\ ops[o1].name = "Server_delete" /\ ops[o1].arg = "true"
        /\ ops[o1].promise = "resolved"
        /\ \E k \in CallsOf(o1) : calls[k].tpl = "/application/servers/{id}/force"
        /\ ops[o2].name = "Server_delete" /\ ops[o2].arg = "undefined"
        /\ ops[o2].this = ops[o1].this
        /\ \E k \in CallsOf(o2) : calls[k].tpl = "/application/servers/{id}"

\* ------------------------------------------------- calls per operation
\* The methods that answer from the instance's own fields.
LocalNames ==
    {"Server_isSuspended", "ClientServer_databases", "ClientServer_allocations"}

\* C16 (as stated): every public operation issues exactly one transport
\* call, except ClientServer.resourceUtilization, which issues two; none
\* issues zero.
C16_OneCallPerOperation ==
    \A o \in 1..Len(ops) :
        IF ops[o].name = "ClientServer_resourceUtilization"
        THEN /\ Cardinality(CallsOf(o)) \in {1, 2}
             /\ Succeeded(o) => Cardinality(CallsOf(o)) = 2
        ELSE Cardinality(CallsOf(o)) = 1

\* C16 (amended): every public operation issues exactly one transport call,
\* except ClientServer.resourceUtilization, which issues two (the second
\* once the first has succeeded), and Server.isSuspended,
\* ClientServer.databases and ClientServer.allocations, which issue none and
\* resolve at once with a field of the instance.
C16_OneCallExceptLocalReads ==
    \A o \in 1..Len(ops) :
        CASE ops[o].name = "ClientServer_resourceUtilization" ->
                /\ Cardinality(CallsOf(o)) \in {1, 2}
                /\ Cardinality(CallsOf(o)) = 2 <=>
                      \E k \in CallsOf(o) :
                          /\ calls[k].state = "ok"
                          /\ calls[k].tpl = "/client/servers/{identifier}/resources"
          [] ops[o].name \in LocalNames ->
                /\ CallsOf(o) = {}
                /\ ops[o].promise = "resolved"
                /\ Len(ops[o].value) = 1
          [] OTHER -> Cardinality(CallsOf(o)) = 1

\* databases() has resolved without a call and resourceUtilization has
\* issued its two.
C16_Witness ==
    \E o1, o2 \in 1..Len(ops) :
        /\ ops[o1].name = "ClientServer_databases"
        /\ CallsOf(o1) = {}
        /\ ops[o1].promise = "resolved"
        /\ ops[o1].value = <<heap[ops[o1].this].featureLimits.databases>>
        /\ ops[o2].name = "ClientServer_resourceUtilization"
        /\ Cardinality(CallsOf(o2)) = 2
        /\ ops[o2].promise = "resolved"

ResourcesPath == "/client/servers/{identifier}/resources"

DetailsPath == "/client/servers/{identifier}"

\* C17: ClientServer.resourceUtilization issues its two calls one after the
\* other: first the resources call, and the details call only once the
\* resources call has resolved; the two are never in flight together.  If
\* the first call rejects, the second is never issued and the operation
\* rejects with the first call's error.
C17_UtilizationCallsInSequence ==
    \A o \in 1..Len(ops) :
        ops[o].name = "ClientServer_resourceUtilization" =>
          /\ \A k \in CallsOf(o) :
                /\ calls[k].tpl \in {ResourcesPath, DetailsPath}
                /\ calls[k].args = <<heap[ops[o].this].identifier>>
                /\ calls[k].tpl = DetailsPath =>
                      \E k1 \in CallsOf(o) :
                          /\ k1 < k
                          /\ calls[k1].tpl = ResourcesPath
                          /\ calls[k1].state = "ok"
                /\ (calls[k].tpl = ResourcesPath /\ calls[k].state = "err") =>
                      /\ CallsOf(o) = {k}
                      /\ ops[o].promise = "rejected"
                      /\ ops[o].error = calls[k].error
          /\ Cardinality({k \in CallsOf(o) : calls[k].tpl = ResourcesPath}) = 1
          /\ Cardinality({k \in CallsOf(o) : calls[k].state = "pending"}) <= 1

\* One invocation was rejected by its resources call and issued nothing
\* more; another has its details call in flight after its resources call
\* resolved.
C17_Witness ==
    \E o1, o2 \in 1..Len(ops) :
        /\ ops[o1].name = "ClientServer_resourceUtilization"
        /\ ops[o1].promise = "rejected"
        /\ ops[o1].error = 404
        /\ Cardinality(CallsOf(o1)) = 1
        /\ ops[o2].name = "ClientServer_resourceUtilization"
        /\ \E k \in CallsOf(o2) :
              calls[k].tpl = DetailsPath /\ calls[k].state = "pending"

\* ------------------------------------------------------ racing setters
\* Calls k1 and k2 come from two setters of one field of one instance, k2
\* invoked later, while k1 was still in flight, and by no setter of that
\* field since.
RacingSetters(names) ==
    {p \in (1..Len(calls)) \X (1..Len(calls)) :
        /\ p[1] < p[2]
        /\ ops[calls[p[1]].op].name \in names
        /\ ops[calls[p[2]].op].name \in names
        /\ ops[calls[p[1]].op].this = ops[calls[p[2]].op].this
        /\ SetterTarget[ops[calls[p[1]].op].name]
             = SetterTarget[ops[calls[p[2]].op].name]
        /\ p[1] \in calls[p[2]].inflight
        /\ LatestOnField(p[2])}

LaterWins(names) ==
    \A p \in RacingSetters(names) :
        LET o2 == ops[calls[p[2]].op]
        IN  Holds(heap[o2.this], SetterTarget[o2.name], o2.arg)

\* C18 (as stated): when two setters of one field are invoked on one
\* instance before either response has arrived, the instance's field equals
\* the later-invoked setter's value, in every state that follows: whichever
\* response arrives first, whether each call succeeds or fails.
C18_LaterSetterWins == LaterWins(SetterNames)

\* C18 (amended): the same for every setter except User.setPassword, which
\* has no local field to write.
C18_LaterSetterWinsWhereAssigned == LaterWins(SetterNames \ {"User_setPassword"})

\* Two racing setters of one field with different values: the later one was
\* answered first and rejected, the earlier one was answered second and
\* succeeded, and the field holds the later one's value.
C18_Witness ==
    \E p \in RacingSetters(SetterNames \ {"User_setPassword"}) :
        LET o1 == ops[calls[p[1]].op]
            o2 == ops[calls[p[2]].op]
        IN  /\ o1.name = "Node_setMemory"
            /\ o1.arg = 1 /\ o2.arg = 2
            /\ calls[p[2]].state = "err" /\ calls[p[2]].seq = 1
            /\ calls[p[1]].state = "ok" /\ calls[p[1]].seq = 2
            /\ heap[o2.this].memory = 2

\* -------------------------------------------- what an instance holds
\* The fields of instance r as its constructor set them: hydrated from the
\* response it was built from (the first entity of the behaviour: from the
\* attribute bag of the initial state).
AsBuilt(r) ==
    IF heap[r].by = 0
    THEN Hydrated(heap[r].cls, 0, RawOf(heap[r].cls, 1, 1))
    ELSE LET k == CHOOSE k \in CallsOf(heap[r].by) : calls[k].state = "ok"
         IN  Hydrated(heap[r].cls, 0, calls[k].res.data[1])

Assign(e, path, v) ==
    IF Len(path) = 1 THEN [e EXCEPT ![path[1]] = v]
                     ELSE [e EXCEPT ![path[1]][path[2]] = v]

AssigningNames == SetterNames \ {"User_setPassword"}

\* e after the local assignments of the setters invoked on r, in the order
\* of invocation, from call j on.
RECURSIVE Replayed(_, _, _)
Replayed(e, r, j) ==
    IF j > Len(calls) THEN e
    ELSE LET o == ops[calls[j].op]
         IN  IF o.name \in AssigningNames /\ o.this = r
             THEN Replayed(Assign(e, SetterTarget[o.name], o.arg), r, j + 1)
             ELSE Replayed(e, r, j + 1)

\* The calls of the setters of field path invoked on r.
AssignmentsTo(r, path) ==
    {k \in 1..Len(calls) :
        /\ ops[calls[k].op].name \in AssigningNames
        /\ ops[calls[k].op].this = r
        /\ SetterTarget[ops[calls[k].op].name] = path}

SetterTargets == {SetterTarget[n] : n \in AssigningNames}

\* C19 (as stated): each field of an instance holds the value the instance
\* was built with or the value of the most recent local assignment, and
\* never a value that belongs only to an update the server has rejected.
C19_NoRejectedValueIsHeld ==
    \A r \in 1..Len(heap) :
        LET now == Replayed(AsBuilt(r), r, 1)
        IN  /\ \A f \in DOMAIN AsBuilt(r) : heap[r][f] = now[f]
            /\ \A path \in SetterTargets :
                  HasField(heap[r], path) =>
                    \/ Field(heap[r], path) = Field(AsBuilt(r), path)
                    \/ \E k \in AssignmentsTo(r, path) :
                          /\ ops[calls[k].op].arg = Field(heap[r], path)
                          /\ calls[k].state # "err"

\* C19 (amended): each field of an instance holds the value the instance
\* was built with, or, once a setter of that field has been invoked on it,
\* the value of the most recent such invocation, whether the server has
\* accepted that update, rejected it or not answered yet.
C19_FieldsAreBuiltOrLastAssigned ==
    \A r \in 1..Len(heap) :
        LET now == Replayed(AsBuilt(r), r, 1)
        IN  \A f \in DOMAIN AsBuilt(r) : heap[r][f] = now[f]

\* The server rejected setEmail(2): the instance holds 2, which it was not
\* built with, and its other fields are as built.
C19_Witness ==
    \E k \in 1..Len(calls) :
        LET o == ops[calls[k].op]
        IN  /\ o.name = "User_setEmail"
            /\ calls[k].state = "err"
            /\ AssignmentsTo(o.this, <<"email">>) = {k}
            /\ heap[o.this].email = 2
            /\ AsBuilt(o.this).email = 1
            /\ heap[o.this].username = AsBuilt(o.this).username

\* ------------------------------------------- the multi-field updates
MultiFieldUpdates ==
    {"Server_updateDetails", "Server_updateBuild", "Server_updateStartup"}

\* The local field each option of the multi-field updates corresponds to.
UpdateLocalOf ==
    [name |-> <<"name">>, description |-> <<"description">>,
     allocation |-> <<"allocation">>, limits |-> <<"limits">>,
     startup |-> <<"container", "startupCommand">>]

\* C20 (as stated): when updateDetails, updateBuild or updateStartup issues
\* its call, the instance already holds each changed value in the field
\* the option corresponds to, as after a single-field setter.
C20_UpdatesAssignBeforeCall ==
    \A k \in 1..Len(calls) :
        ops[calls[k].op].name \in MultiFieldUpdates =>
            \A key \in DOMAIN calls[k].changes \cap DOMAIN UpdateLocalOf :
                Field(calls[k].atIssue, UpdateLocalOf[key]) = calls[k].changes[key]

\* C20 (amended): invoking updateDetails, updateBuild or updateStartup
\* changes no field of the local instance (nor of any other); the changed
\* values travel in the request body only.
C20_UpdatesAssignNothing ==
    [][(/\ Len(ops') = Len(ops) + 1
        /\ ops'[Len(ops')].name \in MultiFieldUpdates)
       => /\ heap' = heap
          /\ calls'[Len(calls')].atIssue = heap[ops'[Len(ops')].this]
          /\ \A key \in DOMAIN calls'[Len(calls')].changes :
                calls'[Len(calls')].body[key] = calls'[Len(calls')].changes[key]]_vars

\* updateDetails was invoked with a name other than the local one, and the
\* instance still holds the old name while the body carries the new one.
C20_Witness ==
    \E k \in 1..Len(calls) :
        LET o == ops[calls[k].op]
        IN  /\ o.name = "Server_updateDetails"
            /\ "name" \in DOMAIN calls[k].changes
            /\ calls[k].changes.name # calls[k].atIssue.name
            /\ heap[o.this] = calls[k].atIssue
            /\ heap[o.this].name # calls[k].body.name

\* -------------------------------------------------- single-entity fetch
FetchClass ==
    [User_getById |-> "User", User_getByExternalId |-> "User",
     Node_getById |-> "Node", Location_getById |-> "Location",
     Server_getById |-> "Server", Server_getByExternalId |-> "Server",
     Nest_getById |-> "Nest", Egg_getById |-> "Egg",
     ServerDatabase_getById |-> "ServerDatabase",
     ClientServer_getById |-> "ClientServer"]

\* The base path of each resource in the table of the produced surface.
BasePath ==
    [User |-> "/application/users", Node |-> "/application/nodes",
     Location |-> "/application/locations", Server |-> "/application/servers",
     Nest |-> "/application/nests", Egg |-> "/application/nests/{nest}/eggs",
     ServerDatabase |-> "/application/servers/{server}/databases",
     ClientServer |-> "/client"]

\* base path followed by /{id}, or by /external/{externalId}.
ById(base) ==
    CASE base = "/application/users" -> "/application/users/{id}"
      [] base = "/application/nodes" -> "/application/nodes/{id}"
      [] base = "/application/locations" -> "/application/locations/{id}"
      [] base = "/application/servers" -> "/application/servers/{id}"
      [] base = "/application/nests" -> "/application/nests/{id}"
      [] base = "/application/nests/{nest}/eggs" ->
            "/application/nests/{nest}/eggs/{id}"
      [] base = "/application/servers/{server}/databases" ->
            "/application/servers/{server}/databases/{id}"
      [] base = "/client" -> "/client/{id}"
      [] base = "/client/servers" -> "/client/servers/{id}"

ByExternalId(base) ==
    CASE base = "/application/users" -> "/application/users/external/{externalId}"
      [] base = "/application/servers" ->
            "/application/servers/external/{externalId}"

\* Call k of a fetch GETs the path built on base, its last path argument
\* the id asked for, and resolves to one entity built from the response.
FetchesFrom(k, base) ==
    LET o == ops[calls[k].op]
        c == calls[k]
    IN  /\ c.method = "GET"
        /\ c.tpl = IF o.name \in {"User_getByExternalId", "Server_getByExternalId"}
                   THEN ByExternalId(base) ELSE ById(base)
        /\ c.args # <<>> /\ c.args[Len(c.args)] = o.arg
        /\ c.state = "ok" =>
              /\ o.promise = "resolved"
              /\ Len(o.result) = 1
              /\ BuiltBy(c.op) = {o.result[1]}
              /\ BuiltFrom(heap[o.result[1]], FetchClass[o.name], 0, c.res.data[1])

\* C21 (as stated): every getById GETs <base path>/{id} with the base path
\* of the table (ClientServer: /client/{id}), getByExternalId of User and
\* Server GETs <base path>/external/{id}; each resolves to exactly one
\* entity built from the response attributes.
C21_FetchGetsTableBasePath ==
    \A k \in 1..Len(calls) :
        ops[calls[k].op].name \in FetchNames =>
            FetchesFrom(k, BasePath[FetchClass[ops[calls[k].op].name]])

\* C21 (amended): as stated for the eight admin resources' fetches;
\* ClientServer.getById GETs /client/servers/{id}, not /client/{id}.
C21_FetchGetsPathClientUnderServers ==
    \A k \in 1..Len(calls) :
        LET name == ops[calls[k].op].name
        IN  name \in FetchNames =>
              FetchesFrom(k, IF name = "ClientServer_getById"
                             THEN "/client/servers"
                             ELSE BasePath[FetchClass[name]])

\* ClientServer.getById(2) resolved one entity from /client/servers/2.
C21_Witness ==
    \E k \in 1..Len(calls) :
        LET o == ops[calls[k].op]
        IN  /\ o.name = "ClientServer_getById"
            /\ calls[k].tpl = "/client/servers/{id}"
            /\ calls[k].args = <<2>>
            /\ calls[k].state = "ok"
            /\ Len(o.result) = 1
            /\ heap[o.result[1]].cls = "ClientServer"

\* --------------------------------------------------------------- create
CreatePath ==
    [User_create |-> "/application/users", Node_create |-> "/application/nodes",
     Location_create |-> "/application/locations",
     Server_create |-> "/application/servers"]

CreateClass ==
    [User_create |-> "User", Node_create |-> "Node",
     Location_create |-> "Location", Server_create |-> "Server"]

\* The remote name of each create option.
RemoteName ==
    [User_create |->
        [externalId |-> "external_id", username |-> "username",
         email |-> "email", firstName |-> "first_name",
         lastName |-> "last_name", password |-> "password",
         admin |-> "root_admin", language |-> "language"],
     Node_create |->
        [name |-> "name", description |-> "description",
         locationId |-> "location_id", public |-> "public", fqdn |-> "fqdn",
         scheme |-> "scheme", behindProxy |-> "behind_proxy",
         memory |-> "memory", memoryOverAllocate |-> "memory_overallocate",
         disk |-> "disk", diskOverAllocate |-> "disk_overallocate",
         daemonBase |-> "daemon_base", daemonPort |-> "daemon_listen",
         daemonSftpPort |-> "daemon_sftp",
         maintenanceMode |-> "maintenance_mode", uploadSize |-> "upload_size"],
     Location_create |-> [shortCode |-> "short", description |-> "long"],
     Server_create |->
        [externalId |-> "external_id", name |-> "name", user |-> "user",
         description |-> "description", egg |-> "egg", pack |-> "pack",
         image |-> "docker_image", startup |-> "startup", limits |-> "limits",
         featureLimits |-> "feature_limits", environment |-> "environment",
         startWhenInstalled |-> "start_on_completion",
         skipScripts |-> "skip_scripts",
         outOfMemoryKiller |-> "oom_disabled"]]

ServerCreateKeys ==
    {"external_id", "name", "user", "description", "egg", "pack",
     "docker_image", "startup", "limits", "feature_limits", "environment",
     "start_on_completion", "skip_scripts", "oom_disabled"}

\* C30: the body of Server.create has the fourteen fixed keys; it has the
\* key allocation exactly when options.allocation is truthy, and the key
\* deploy (with locations, dedicated_ip, port_range) exactly when
\* options.deploy is truthy; it has no other key.
C30_ServerCreateBodyKeys ==
    \A k \in 1..Len(calls) :
        LET options == ops[calls[k].op].arg
            body == calls[k].body
        IN  ops[calls[k].op].name = "Server_create" =>
              /\ ServerCreateKeys \subseteq DOMAIN body
              /\ DOMAIN body \subseteq ServerCreateKeys \cup {"allocation", "deploy"}
              /\ "allocation" \in DOMAIN body <=>
                    ("allocation" \in DOMAIN options /\ options.allocation # 0)
              /\ "allocation" \in DOMAIN body =>
                    body.allocation = options.allocation
              /\ "deploy" \in DOMAIN body <=>
                    ("deploy" \in DOMAIN options /\ options.deploy # Null)
              /\ "deploy" \in DOMAIN body =>
                    /\ DOMAIN body.deploy =
                          {"locations", "dedicated_ip", "port_range"}
                    /\ body.deploy.locations = options.deploy.locations
                    /\ body.deploy.dedicated_ip = options.deploy.dedicatedIp
                    /\ body.deploy.port_range = options.deploy.portRange

\* Server.create was called with allocation 0 and a deploy object: the body
\* has deploy and no allocation.
C30_Witness ==
    \E k \in 1..Len(calls) :
        LET options == ops[calls[k].op].arg
        IN  /\ ops[calls[k].op].name = "Server_create"
            /\ "allocation" \in DOMAIN options
            /\ options.allocation = 0
            /\ "allocation" \notin DOMAIN calls[k].body
            /\ "deploy" \in DOMAIN calls[k].body
            /\ calls[k].body.deploy.dedicated_ip = 2

\* ------------------------------------------------------ client facades
TestPath ==
    [AdminClient_testConnection |-> "/application/servers",
     UserClient_testConnection |-> "/client"]

TestNames == DOMAIN TestPath

\* The testConnection invocations made by a constructor.
SelfTests ==
    {o \in 1..Len(ops) :
        ops[o].entry.name \in {"AdminClient_constructor", "UserClient_constructor"}}

\* C25: testConnection issues exactly one call, a GET of /application/servers
\* (AdminClient) or /client (UserClient); its promise is resolved if and
\* only if the transport resolved with status 200, rejected with a new
\* Error naming the status for any other resolved status, and rejected with
\* the transport's own error when the transport rejected.
C25_TestConnectionResolvesOn200Only ==
    \A o \in 1..Len(ops) :
        ops[o].name \in TestNames =>
          /\ Cardinality(CallsOf(o)) = 1
          /\ \A k \in CallsOf(o) :
                /\ calls[k].method = "GET"
                /\ calls[k].tpl = TestPath[ops[o].name]
                /\ calls[k].args = <<>>
                /\ ~calls[k].hasBody
                /\ calls[k].state = "pending" => ops[o].promise = "pending"
                /\ ops[o].promise = "resolved" <=>
                      (calls[k].state = "ok" /\ calls[k].res.statusCode = 200)
                /\ (calls[k].state = "ok" /\ calls[k].res.statusCode # 200) =>
                      /\ ops[o].promise = "rejected"
                      /\ ops[o].error = NewError(calls[k].res.statusCode)
                /\ calls[k].state = "err" =>
                      /\ ops[o].promise = "rejected"
                      /\ ops[o].error = calls[k].error

\* testConnection on a UserClient was answered 204 and rejected with a new
\* Error; one on an AdminClient was answered 0.
C25_Witness ==
    /\ \E k \in 1..Len(calls) :
          /\ ops[calls[k].op].name = "UserClient_testConnection"
          /\ ops[calls[k].op].entry.name = "UserClient_testConnection"
          /\ calls[k].state = "ok"
          /\ calls[k].res.statusCode = 204
          /\ ops[calls[k].op].error = NewError(204)
    /\ \E k \in 1..Len(calls) :
          /\ calls[k].state = "ok"
          /\ calls[k].res.statusCode = 0
          /\ ops[calls[k].op].promise = "rejected"

\* C23: every facade is constructed with exactly one self-test, which has
\* issued exactly one call; the facade exists as constructed whatever the
\* fate of the self-test; a failed self-test shows only as the rejection,
\* with the self-test's error, of the promise catch returned, to which no
\* handler is attached; and the facade's operations can still be invoked.
C23_SelfTestFailsUnhandled ==
    /\ \A i \in Instances("AdminClient") \cup Instances("UserClient") :
          Cardinality({o \in SelfTests : ops[o].this = i}) = 1
    /\ \A o \in SelfTests :
          /\ ops[o].name \in TestNames
          /\ Cardinality(CallsOf(o)) = 1
          /\ ops[o].this \in 1..Len(heap)
          /\ \A k \in CallsOf(o) : heap[ops[o].this] = calls[k].atIssue
          /\ Len(ops[o].value) = 1
          /\ ops[o].value[1].state = ops[o].promise
          /\ ops[o].value[1].handlers = 0
          /\ ops[o].promise = "rejected" =>
                /\ ops[o].value[1].error = ops[o].error
                /\ Len(ops) < MaxOps =>
                      IF heap[ops[o].this].cls = "AdminClient"
                      THEN /\ ENABLED AdminClient_testConnection(ops[o].this)
                           /\ ENABLED AdminClient_getUsers(Number(1))
                      ELSE /\ ENABLED UserClient_testConnection(ops[o].this)
                           /\ ENABLED UserClient_getClientServers(Number(1))

\* The self-test of an AdminClient was rejected by the transport; the
\* rejection is unhandled, and a listing invoked on the facade afterwards
\* has resolved.
C23_Witness ==
    \E o \in SelfTests, o2 \in 1..Len(ops) :
        /\ heap[ops[o].this].cls = "AdminClient"
        /\ ops[o].promise = "rejected"
        /\ ops[o].value[1].state = "rejected"
        /\ ops[o].value[1].handlers = 0
        /\ ops[o2].entry.name = "AdminClient_getUsers"
        /\ ops[o2].promise = "resolved"
        /\ \A k \in CallsOf(o), k2 \in CallsOf(o2) :
              /\ calls[k].state = "err"
              /\ k < k2
              /\ k \notin calls[k2].inflight

\* ------------------------------------------------- frame of a setter
\* Between e and e2 exactly the field at path may differ, and e2 holds v
\* there.
AssignsOnly(e, e2, path, v) ==
    /\ DOMAIN e2 = DOMAIN e
    /\ Holds(e2, path, v)
    /\ \A f \in DOMAIN e \ {path[1]} : e2[f] = e[f]
    /\ Len(path) = 2 =>
          /\ DOMAIN e2[path[1]] = DOMAIN e[path[1]]
          /\ \A g \in DOMAIN e[path[1]] \ {path[2]} :
                e2[path[1]][g] = e[path[1]][g]

\* A step in which one of the setters named is invoked leaves every other
\* instance alone and, on its own instance, assigns the targeted field only.
InvocationAssignsTarget(names) ==
    (/\ Len(ops') = Len(ops) + 1
     /\ ops'[Len(ops')].name \in names)
    => LET o == ops'[Len(ops')]
       IN  /\ Len(heap') = Len(heap)
           /\ \A r \in 1..Len(heap) : r # o.this => heap'[r] = heap[r]
           /\ AssignsOnly(heap[o.this], heap'[o.this], SetterTarget[o.name], o.arg)
           /\ calls'[Len(calls')].atIssue = heap'[o.this]

\* A step in which a response arrives changes no field of any instance
\* that exists (it may construct new ones).
ResponseAssignsNothing ==
    Len(ops') = Len(ops) =>
        /\ Len(heap') >= Len(heap)
        /\ \A r \in 1..Len(heap) : heap'[r] = heap[r]

\* C24 (as stated): the invocation of a setter changes, on its instance,
\* exactly the targeted field, and nothing else anywhere; the arrival of a
\* response changes no field of an existing instance.
C24_SetterChangesTargetOnly ==
    [][InvocationAssignsTarget(SetterNames) /\ ResponseAssignsNothing]_vars

\* C24 (amended): as stated for every setter but User.setPassword, whose
\* invocation changes no field at all.
C24_SetterChangesTargetOnlyWhereAssigned ==
    [][/\ InvocationAssignsTarget(AssigningNames)
       /\ (/\ Len(ops') = Len(ops) + 1
           /\ ops'[Len(ops')].name = "User_setPassword") => heap' = heap
       /\ ResponseAssignsNothing]_vars

\* setFirstName(2) was invoked and answered: the instance holds 2 as first
\* name and is otherwise as built, and another instance was resolved.
C24_Witness ==
    \E k \in 1..Len(calls) :
        LET o == ops[calls[k].op]
        IN  /\ o.name = "User_setFirstName"
            /\ calls[k].state = "ok"
            /\ Len(o.result) = 1
            /\ o.result[1] # o.this
            /\ AsBuilt(o.this).firstName = 1
            /\ AssignsOnly(AsBuilt(o.this),
                           [f \in DOMAIN AsBuilt(o.this) |-> heap[o.this][f]],
                           <<"firstName">>, 2)

\* ----------------------------------------- base of a later setter's body
\* e after the local assignments of the setters invoked on r in calls
\* j..(k - 1), whatever became of those calls.
RECURSIVE ReplayedBefore(_, _, _, _)
ReplayedBefore(e, r, j, k) ==
    IF j >= k THEN e
    ELSE LET o == ops[calls[j].op]
         IN  IF o.name \in AssigningNames /\ o.this = r
             THEN ReplayedBefore(Assign(e, SetterTarget[o.name], o.arg), r, j + 1, k)
             ELSE ReplayedBefore(e, r, j + 1, k)

\* C26: the base fields of a setter's body (the keys its changes do not
\* mention) carry the instance's local values at the invocation: the values
\* it was built with, overwritten by every earlier setter invoked on it,
\* whether that setter's call is pending, was accepted or was rejected.
C26_BaseCarriesOptimisticValues ==
    \A k \in 1..Len(calls) :
        LET c == calls[k]
            o == ops[c.op]
        IN  o.name \in SetterNames =>
              LET local == ReplayedBefore(AsBuilt(o.this), o.this, 1, k)
              IN  /\ BaseKeys(c.tpl) \subseteq DOMAIN c.body
                  /\ \A f \in DOMAIN local : c.atIssue[f] =
                        IF o.name \in AssigningNames
                        THEN Assign(local, SetterTarget[o.name], o.arg)[f]
                        ELSE local[f]
                  /\ \A key \in BaseKeys(c.tpl) \ DOMAIN c.changes :
                        c.body[key] = Field(local, LocalOf[key])

\* setUsername(2) was rejected; setEmail, invoked after the rejection, sent
\* username 2, which the instance was not built with.
C26_Witness ==
    \E k1 \in 1..Len(calls), k2 \in 1..Len(calls) :
        /\ k1 < k2
        /\ ops[calls[k1].op].name = "User_setUsername"
        /\ ops[calls[k2].op].name = "User_setEmail"
        /\ ops[calls[k1].op].this = ops[calls[k2].op].this
        /\ calls[k1].state = "err"
        /\ k1 \notin calls[k2].inflight
        /\ ops[calls[k1].op].arg = 2
        /\ AsBuilt(ops[calls[k1].op].this).username = 1
        /\ calls[k2].body.username = 2

\* ------------------------------------------------------------ suspension
ToggleNames == {"Server_suspend", "Server_unsuspend"}

\* The suspend and unsuspend invocations on r made before invocation o.
Toggles(r, o) ==
    {j \in 1..(o - 1) : ops[j].this = r /\ ops[j].name \in ToggleNames}

\* The flag r was hydrated with: that of the attribute bag it was built
\* from, which its name (assigned by no operation here) identifies.
HydratedFlag(r) ==
    LET v == CHOOSE v \in Vals : RawServer(heap[r].id, v).name = heap[r].name
    IN  ServerModel(RawServer(heap[r].id, v)).suspended

\* The flag after the invocations before o: set by the most recent of the
\* suspend and unsuspend invocations, if any.
FlagBefore(r, o) ==
    IF Toggles(r, o) = {} THEN HydratedFlag(r)
    ELSE LET last == CHOOSE j \in Toggles(r, o) : \A j2 \in Toggles(r, o) : j2 <= j
         IN  ops[last].name = "Server_suspend"

\* C27: isSuspended issues no call and resolves to true exactly when the
\* most recent of the earlier suspend and unsuspend invocations on the
\* instance was suspend (to the hydrated flag when there was none),
\* whatever became of their calls; the instance's flag is the one of the
\* most recent of them at any time; suspend and unsuspend each issue one
\* POST, to their own path, with the no-body flag set.
C27_IsSuspendedFollowsLastToggle ==
    /\ \A r \in 1..Len(heap) :
          heap[r].cls = "Server" => heap[r].suspended = FlagBefore(r, Len(ops) + 1)
    /\ \A o \in 1..Len(ops) :
          /\ ops[o].name = "Server_isSuspended" =>
                /\ CallsOf(o) = {}
                /\ ops[o].promise = "resolved"
                /\ ops[o].value = <<FlagBefore(ops[o].this, o)>>
          /\ ops[o].name \in ToggleNames =>
                /\ Cardinality(CallsOf(o)) = 1
                /\ \A k \in CallsOf(o) :
                      /\ calls[k].method = "POST"
                      /\ calls[k].noBody
                      /\ calls[k].args = <<heap[ops[o].this].id>>
                      /\ calls[k].tpl =
                            IF ops[o].name = "Server_suspend"
                            THEN "/application/servers/{id}/suspend"
                            ELSE "/application/servers/{id}/unsuspend"

\* On a server hydrated as suspended, unsuspend was rejected, suspend was
\* invoked and its call accepted, and isSuspended resolved to true; and the
\* other way round.
C27_Witness ==
    /\ Len(ops) = 3
    /\ ops[3].name = "Server_isSuspended"
    /\ ops[1].name \in ToggleNames /\ ops[2].name \in ToggleNames
    /\ ops[1].name # ops[2].name
    /\ ops[1].promise = "rejected"
    /\ ops[2].promise = "resolved"
    /\ ops[3].value = <<ops[2].name = "Server_suspend">>
    /\ HydratedFlag(ops[3].this) = (ops[1].name = "Server_unsuspend")

\* ------------------------------------------------ the raw-body updates
RawUpdatePath ==
    [Server_updateServer |-> "/application/servers/{id}/details",
     Server_updateServerBuild |-> "/application/servers/{id}/build",
     Server_updateServerStartup |-> "/application/servers/{id}/startup"]

RawUpdateNames == DOMAIN RawUpdatePath

\* What updateDetails, updateBuild or updateStartup sends to endpoint tpl
\* for the argument data on the instance this.
OverlaidBody(tpl, this, data) ==
    CASE tpl = "/application/servers/{id}/details" ->
            Server_getDetailsRequestObject(this, data)
      [] tpl = "/application/servers/{id}/build" ->
            Server_getBuildRequestObject(this, data)
      [] tpl = "/application/servers/{id}/startup" ->
            Server_getStartupRequestObject(this, data)

RawUpdateRequest ==
    \A k \in 1..Len(calls) :
        LET c == calls[k]
            o == ops[c.op]
        IN  o.name \in RawUpdateNames =>
              /\ c.method = "PATCH"
              /\ c.tpl = RawUpdatePath[o.name]
              /\ c.args = <<c.atIssue.id>>
              /\ c.hasBody
              /\ c.body = o.arg
              /\ c.body # OverlaidBody(c.tpl, c.atIssue, o.arg)
                    <=> ~(BaseKeys(c.tpl) \subseteq DOMAIN o.arg)

\* C28: updateServer, updateServerBuild and updateServerStartup PATCH their
\* endpoint with exactly the caller's object as body, which differs from
\* the body updateDetails, updateBuild or updateStartup sends for the same
\* argument exactly when the argument omits a base key of the endpoint; and
\* their invocation changes no field of any instance.
C28_RawUpdateSendsArgumentOnly ==
    /\ []RawUpdateRequest
    /\ [][(/\ Len(ops') = Len(ops) + 1
           /\ ops'[Len(ops')].name \in RawUpdateNames) => heap' = heap]_vars

\* updateServer was invoked with a description only: the body has neither
\* name nor user; and updateServer was invoked with name and user: the
\* body is the one updateDetails sends.
C28_Witness ==
    /\ \E k \in 1..Len(calls) :
          /\ ops[calls[k].op].name = "Server_updateServer"
          /\ DOMAIN calls[k].body = {"description"}
    /\ \E k \in 1..Len(calls) :
          /\ ops[calls[k].op].name = "Server_updateServer"
          /\ DOMAIN calls[k].body = {"name", "user"}
          /\ calls[k].body.name # calls[k].atIssue.name
          /\ calls[k].body = OverlaidBody(calls[k].tpl, calls[k].atIssue,
                                          ops[calls[k].op].arg)

\* ------------------------------------------- cursors of resolved entities
\* C29: an entity a create or an update has constructed carries no
\* pagination cursor, and no cursor was constructed for it, whether or not
\* the response held a pagination block and whether or not the instance the
\* update was invoked on carries a cursor; and no step changes the cursor
\* an existing instance carries, nor an existing cursor.
NoCursorOnResolved ==
    \A o \in 1..Len(ops) :
        ops[o].name \in UpdateNames \cup CreateNames =>
          /\ CursorsBy(o) = {}
          /\ \A r \in BuiltBy(o) : heap[r].pagination = 0
          /\ \A j \in 1..Len(ops[o].result) :
                /\ ops[o].result[j] \in BuiltBy(o)
                /\ ops[o].result[j] # ops[o].this

C29_ResolvedEntityHasNoCursor ==
    /\ []NoCursorOnResolved
    /\ [][/\ \A r \in 1..Len(heap) : heap'[r].pagination = heap[r].pagination
          /\ \A c \in 1..Len(cursors) : cursors'[c] = cursors[c]]_vars

\* A setter invoked on an instance that carries a cursor resolved, on a
\* response with a pagination block, to an entity without one, the
\* instance still carrying its cursor; and a create resolved likewise.
C29_Witness ==
    /\ \E k \in 1..Len(calls) :
          LET o == ops[calls[k].op]
          IN  /\ o.name \in SetterNames
              /\ calls[k].state = "ok"
              /\ calls[k].res.pagination.present
              /\ heap[o.this].pagination # 0
              /\ Len(o.result) = 1
              /\ heap[o.result[1]].pagination = 0
    /\ \E k \in 1..Len(calls) :
          LET o == ops[calls[k].op]
          IN  /\ o.name \in CreateNames
              /\ calls[k].state = "ok"
              /\ calls[k].res.pagination.present
              /\ Len(o.result) = 1
              /\ heap[o.result[1]].pagination = 0

====
